---- MODULE Spec2Model ----
(***************************************************************************)
(* Ledger of jobast/ngo-accounting (src/app.py): fiscal years              *)
(* (ExerciceComptable), entries (PieceComptable) with their lines          *)
(* (LigneEcriture) and analytical allocations (ImputationAnalytique),      *)
(* recurring templates (ModeleEcriture), the audit log (AuditLog), cash    *)
(* advances (Avance), fixed assets (Immobilisation) with their             *)
(* depreciation lines (LigneAmortissement), and financings (Financement)   *)
(* with their tranches (TrancheFinancement), budget lines (LigneBudget)    *)
(* with their per-year budgets (BudgetAnnee), expense notes (NoteFrais),   *)
(* purchase requests (DemandeAchat), purchase orders (BonCommande) and     *)
(* bank reconciliations (ReconciliationBancaire).  Each group of handlers  *)
(* has its own specification over the same tables: Spec (entries),         *)
(* SpecSignes (entries, signed amounts), SpecAvances, SpecImmobilisations, *)
(* SpecAmortissements, SpecFinancements, SpecVentilation, SpecRapports,    *)
(* SpecConcurrence, SpecValidation, SpecBudgets, SpecNotesFrais,           *)
(* SpecAchats and SpecReconciliations.                                     *)
(*                                                                         *)
(* Every request handler is one atomic action: it runs in one database     *)
(* transaction that is committed or rolled back before the handler         *)
(* returns.  Amounts are integers counted in hundredths (the columns are   *)
(* Numeric(15, 2)); the inputs are whole hundredths.  A date is the        *)
(* calendar year it falls in: every fiscal year runs from 1 January to     *)
(* 31 December (init_db, nouvel_exercice), so a date lies in the range of  *)
(* a fiscal year iff its calendar year does; date.today() is an input of   *)
(* the handlers that read it.  Ids are the positions in the table (SQLite  *)
(* hands out max(rowid) + 1 and no entry or fiscal year is ever deleted).  *)
(* An account is named by its number (601, 521, ...); 0 stands for None in *)
(* the nullable columns projet_id and ligne_budget_id.  The numero of an   *)
(* entry is the sequence part of the generated string: the head in front   *)
(* of it (PC or IMP and the four digits of the current year) has a fixed   *)
(* width and the sequence part is padded to at least five digits, so two   *)
(* numbers with different sequence parts are different strings.            *)
(* audit holds the rows the last handler committed to audit_log, which is  *)
(* append-only: no handler reads, updates or deletes its rows.  last is    *)
(* the outcome of the last request: the handler, the id it was about, the  *)
(* message it flashed and the count it reported.                           *)
(*                                                                         *)
(* SpecConcurrence runs the entry handlers as the server runs them for     *)
(* several clients at once: a handler is cut where it has read what it     *)
(* needs and has not yet written, and requetes holds, for each request in  *)
(* flight, what it has read.  The write of a handler (its flushes and its  *)
(* commit) is one step: SQLite admits one writer at a time.                *)
(* SpecValidation does the same for an edit that meets a validation.       *)
(***************************************************************************)
EXTENDS Integers, Sequences, FiniteSets, TLC

\* ---- bounds of the model ----
MaxPieces == 2
MaxAnnee == 2
MaxMontant == 3
MaxModeles == 1
MaxGroupes == 2
MaxRequetes == 2
\* The most lines an entry holds.
MaxLignes == 4

Annees == 1..MaxAnnee
Montants == 0..MaxMontant

VARIABLES exercices, pieces, modeles, avances, immobilisations, financements,
          requetes, audit, last, lignes_budget, notes_frais, demandes_achat,
          bons_commande, reconciliations

\* The tables of budgets, expense notes, purchase requests, purchase
\* orders and bank reconciliations.
gestion == <<lignes_budget, notes_frais, demandes_achat, bons_commande, reconciliations>>

vars == <<exercices, pieces, modeles, avances, immobilisations, financements,
          requetes, audit, last, gestion>>

\* The tables the entry, template, import and fiscal year handlers never
\* write, and the requests in flight, which a handler that runs as one
\* step never meets.
hors_ecritures == <<avances, immobilisations, financements, requetes, gestion>>

\* The requests the server can run at once, and a request that has not
\* started.
Requetes == 1..MaxRequetes
Libre == [etape |-> "libre"]

\* ---- helpers ----
Abs(x) == IF x < 0 THEN 0 - x ELSE x

RECURSIVE SumDebit(_)
SumDebit(lignes) ==
    IF lignes = <<>> THEN 0 ELSE Head(lignes).debit + SumDebit(Tail(lignes))

RECURSIVE SumCredit(_)
SumCredit(lignes) ==
    IF lignes = <<>> THEN 0 ELSE Head(lignes).credit + SumCredit(Tail(lignes))

\* PieceComptable.total_debit / total_credit
total_debit(lignes) == SumDebit(lignes)
total_credit(lignes) == SumCredit(lignes)

\* Pairs <<hi, lo>> of amounts one hundredth apart, up to 0.11, whose binary
\* floating point difference float(hi/100) - float(lo/100) is strictly below,
\* resp. strictly above, the float literal 0.01 (IEEE-754 double, as Python
\* computes it); for the other pairs one hundredth apart it equals 0.01.
FloatDiffBelowCent == {<<3, 2>>, <<6, 5>>, <<8, 7>>, <<9, 8>>, <<11, 10>>}
FloatDiffAboveCent == {<<4, 3>>, <<5, 4>>, <<7, 6>>, <<10, 9>>}

HiLo(d, c) == IF d >= c THEN <<d, c>> ELSE <<c, d>>

\* PieceComptable.est_equilibree on lines loaded from the database: debit and
\* credit are Decimal, and abs(Decimal) < 0.01 compares exactly against the
\* float 0.01, which is a little more than 1/100: a difference of exactly
\* one hundredth passes.
est_equilibree(lignes) ==
    Abs(total_debit(lignes) - total_credit(lignes)) <= 1

\* PieceComptable.est_equilibree on the lines of the expert form before they
\* are reloaded: debit and credit are Python floats.
est_equilibree_float(lignes) ==
    LET d == total_debit(lignes)
        c == total_credit(lignes)
    IN  \/ d = c
        \/ Abs(d - c) = 1 /\ HiLo(d, c) \in FloatDiffBelowCent

\* upload_import_ecritures: abs(total_debit - total_credit) > 0.01 on floats
import_desequilibre(lignes) ==
    LET d == total_debit(lignes)
        c == total_credit(lignes)
    IN  \/ Abs(d - c) >= 2
        \/ Abs(d - c) = 1 /\ HiLo(d, c) \in FloatDiffAboveCent

\* ---- inputs ----

\* The account of the debit line of the avance mode: the first account of
\* the chart whose numero starts with 421.
CompteAvance == 421

\* The account the forms of the entry handlers name: the same one.
CompteSaisi == CompteAvance

\* A line of a form: no project, no budget line.
Ligne(d, c) ==
    [compte_id |-> CompteSaisi, projet_id |-> 0, ligne_budget_id |-> 0,
     debit |-> d, credit |-> c, imputations |-> <<>>]

\* The accounts, the project and the budget line of the simplified form.
SaisieParDefaut ==
    [compte_debit |-> CompteSaisi, compte_credit |-> CompteSaisi,
     projet_id |-> 0, ligne_budget_id |-> 0]

\* The amount typed on the debit side of every form; the credit side ranges
\* over Montants, so the totals differ by 0, 1, ... MaxMontant hundredths.
MontantDebit == MaxMontant

\* The line lists of a form: one debit line and one credit line.
LignesSaisies == {<<Ligne(MontantDebit, 0), Ligne(0, c)>> : c \in Montants}

\* The ventilation of an expense: none, or one project at 100 %.
Ventilations == {<<>>, <<[projet_id |-> 1, pourcentage |-> 100]>>}

OperationsSimplifiees == {"depense", "recette", "virement", "avance"}

\* nouvelle_ecriture, expense: one allocation per listed project
\* (ImputationsAbandonnees: a handler that drops the allocations)
ImputationsAbandonnees(ventilation, montant) == <<>>
RECURSIVE Imputations(_, _)
Imputations(ventilation, montant) ==
    IF ventilation = <<>> THEN <<>>
    ELSE <<[projet_id |-> Head(ventilation).projet_id,
            pourcentage |-> Head(ventilation).pourcentage,
            montant |-> (montant * Head(ventilation).pourcentage) \div 100]>>
         \o Imputations(Tail(ventilation), montant)

\* The sequence part of a generated number: dernier is the largest id of
\* the table, 0 when the table is empty (dernier.id + 1 if dernier else 1).
\* (NumeroReserve: a generator that skips the numbers of the requests in
\* flight)
NumeroReserve(dernier) ==
    dernier + 1
        + Cardinality({r \in Requetes : requetes[r].etape = "numerote"})
Numero(dernier) == IF dernier = 0 THEN 1 ELSE dernier + 1

\* ---- queries ----
ExercicesOuverts == {e \in DOMAIN exercices : ~exercices[e].cloture}

DansExercice(d, e) ==
    ~(d < exercices[e].date_debut \/ d > exercices[e].date_fin)

NonValidees(e) ==
    Cardinality({i \in DOMAIN pieces :
                    pieces[i].exercice_id = e /\ ~pieces[i].valide})

Resultat(op, id, msg, n) == [op |-> op, id |-> id, msg |-> msg, n |-> n]

Init ==
    /\ exercices = <<[annee |-> 1, date_debut |-> 1, date_fin |-> 1,
                      cloture |-> FALSE]>>
    /\ pieces = <<>>
    /\ modeles = <<>>
    /\ avances = <<>>
    /\ immobilisations = <<>>
    /\ financements = <<>>
    /\ requetes = [r \in Requetes |-> Libre]
    /\ lignes_budget = <<>>
    /\ notes_frais = <<>>
    /\ demandes_achat = <<>>
    /\ bons_commande = <<>>
    /\ reconciliations = <<>>
    /\ audit = {}
    /\ last = Resultat("init", 0, "ok", 0)

\* ---- fiscal years ----

\* nouvel_exercice (POST)
nouvel_exercice(annee) ==
    IF \E e \in DOMAIN exercices : exercices[e].annee = annee
    THEN /\ last' = Resultat("nouvel_exercice", 0, "existe", 0)
         /\ audit' = {}
         /\ UNCHANGED <<exercices, pieces, modeles>>
    ELSE /\ exercices' = Append(exercices,
                [annee |-> annee, date_debut |-> annee, date_fin |-> annee,
                 cloture |-> FALSE])
         /\ audit' =
                {[table |-> "exercices", record_id |-> 0, action |-> "CREATE",
                  valeur |-> annee]}
         /\ last' = Resultat("nouvel_exercice", Len(exercices) + 1, "ok", 0)
         /\ UNCHANGED <<pieces, modeles>>

\* cloturer_exercice: the early return on a year that is already closed
deja_cloture_jamais(id) == FALSE
deja_cloture(id) == exercices[id].cloture

\* cloturer_exercice (POST): unvalidated entries block the closing unless
\* the form carries the force flag
cloture_refusee_jamais(ecritures_non_validees, force) == FALSE
cloture_refusee(ecritures_non_validees, force) ==
    ecritures_non_validees > 0 /\ ~force

\* cloturer_exercice (POST), force = the form's force flag
cloturer_exercice(id, force) ==
    /\ id \in DOMAIN exercices
    /\ IF deja_cloture(id)
       THEN /\ last' = Resultat("cloturer", id, "deja_cloture", 0)
            /\ audit' = {}
            /\ UNCHANGED <<exercices, pieces, modeles>>
       ELSE LET ecritures_non_validees == NonValidees(id) IN
            IF cloture_refusee(ecritures_non_validees, force)
            THEN /\ last' = Resultat("cloturer", id, "non_validees", 0)
                 /\ audit' = {}
                 /\ UNCHANGED <<exercices, pieces, modeles>>
            ELSE /\ exercices' = [exercices EXCEPT ![id].cloture = TRUE]
                 /\ audit' =
                        {[table |-> "exercices", record_id |-> id,
                          action |-> "CLOTURE",
                          valeur |-> IF force THEN ecritures_non_validees
                                     ELSE 0]}
                 /\ last' = Resultat("cloturer", id, "ok", 0)
                 /\ UNCHANGED <<pieces, modeles>>

\* ---- entries ----

\* nouvelle_ecriture (POST), simplified mode: the two lines of an operation.
\* Only an expense carries the budget line and a ventilation, both on its
\* debit line; a transfer carries no project.
LignesSimplifiees(operation_type, montant, ventilation, saisie) ==
    LET projet_id == IF operation_type = "virement" THEN 0
                     ELSE saisie.projet_id
    IN  <<[compte_id |-> IF operation_type = "avance" THEN CompteAvance
                         ELSE saisie.compte_debit,
           projet_id |-> projet_id,
           ligne_budget_id |-> IF operation_type = "depense"
                               THEN saisie.ligne_budget_id ELSE 0,
           debit |-> montant, credit |-> 0,
           imputations |-> IF operation_type = "depense"
                           THEN Imputations(ventilation, montant)
                           ELSE <<>>],
          [compte_id |-> saisie.compte_credit,
           projet_id |-> projet_id,
           ligne_budget_id |-> 0,
           debit |-> 0, credit |-> montant,
           imputations |-> <<>>]>>

RECURSIVE SumPourcentages(_)
SumPourcentages(ventilation) ==
    IF ventilation = <<>> THEN 0
    ELSE Head(ventilation).pourcentage + SumPourcentages(Tail(ventilation))

\* nouvelle_ecriture (POST), simplified mode: the warning flashed when the
\* ventilation of an expense does not total 100 % (beyond 0.01)
avertissement_ventilation(operation_type, ventilation) ==
    /\ operation_type = "depense"
    /\ ventilation # <<>>
    /\ Abs(SumPourcentages(ventilation) - 100) > 0

\* nouvelle_ecriture (POST), operation_type in depense, recette, virement,
\* avance: one debit line and one credit line of the same amount; an expense
\* may carry a ventilation on its debit line.  In last, n counts the
\* warnings flashed before the message.
nouvelle_ecriture_simplifiee(operation_type, montant, date_piece, ventilation, saisie) ==
    IF ExercicesOuverts = {}
    THEN /\ last' = Resultat("simplifiee", 0, "aucun_exercice", 0)
         /\ audit' = {}
         /\ UNCHANGED <<exercices, pieces, modeles>>
    ELSE \E exercice \in ExercicesOuverts :
         IF ~DansExercice(date_piece, exercice)
         THEN /\ last' = Resultat("simplifiee", 0, "date", 0)
              /\ audit' = {}
              /\ UNCHANGED <<exercices, pieces, modeles>>
         ELSE /\ Len(pieces) < MaxPieces
              /\ pieces' = Append(pieces,
                    [numero |-> Numero(Len(pieces)),
                     date_piece |-> date_piece,
                     exercice_id |-> exercice,
                     valide |-> FALSE,
                     lignes |-> LignesSimplifiees(operation_type, montant,
                                                  ventilation, saisie)])
              /\ last' = Resultat("simplifiee", Len(pieces) + 1, "ok",
                      IF avertissement_ventilation(operation_type,
                                                   ventilation)
                      THEN 1 ELSE 0)
              /\ audit' = {}
              /\ UNCHANGED <<exercices, modeles>>

\* nouvelle_ecriture (POST), expert mode: a line takes its account, its
\* project and its amounts from the form and has no budget line.
RECURSIVE LignesExpert(_)
LignesExpert(lignes) ==
    IF lignes = <<>> THEN <<>>
    ELSE <<[compte_id |-> Head(lignes).compte_id,
            projet_id |-> Head(lignes).projet_id,
            ligne_budget_id |-> 0,
            debit |-> Head(lignes).debit,
            credit |-> Head(lignes).credit,
            imputations |-> <<>>]>> \o LignesExpert(Tail(lignes))

\* nouvelle_ecriture (POST), expert mode: the fiscal year and the date come
\* from the form; the balance is checked on the float values of the form.
nouvelle_ecriture_expert(exercice_id, date_piece, lignes) ==
    IF ExercicesOuverts = {}
    THEN /\ last' = Resultat("expert", 0, "aucun_exercice", 0)
         /\ audit' = {}
         /\ UNCHANGED <<exercices, pieces, modeles>>
    ELSE IF ~est_equilibree_float(lignes)
         THEN /\ last' = Resultat("expert", 0, "desequilibre", 0)
              /\ audit' = {}
              /\ UNCHANGED <<exercices, pieces, modeles>>
         ELSE /\ Len(pieces) < MaxPieces
              /\ pieces' = Append(pieces,
                    [numero |-> Numero(Len(pieces)),
                     date_piece |-> date_piece,
                     exercice_id |-> exercice_id,
                     valide |-> FALSE,
                     lignes |-> LignesExpert(lignes)])
              /\ last' = Resultat("expert", Len(pieces) + 1, "ok", 0)
              /\ audit' = {}
              /\ UNCHANGED <<exercices, modeles>>

AvecImputations(lignes) ==
    \E k \in DOMAIN lignes : lignes[k].imputations # <<>>

\* modifier_ecriture (POST).  The old lines are deleted and the new ones are
\* added with piece_id only; piece.lignes was loaded by the delete loop and a
\* flush does not refresh a loaded collection, so the balance check after the
\* flush reads the old lines.  Deleting a line that has allocations sets
\* their non-nullable ligne_ecriture_id to NULL: the flush raises and nothing
\* is committed.
\* modifier_ecriture, before the form is read: a validated entry and an
\* entry of a closed fiscal year are refused
modifier_refus_sans_valide(piece) ==
    IF exercices[piece.exercice_id].cloture THEN "exercice_cloture" ELSE "ok"
modifier_refus_sans_cloture(piece) ==
    IF piece.valide THEN "valide" ELSE "ok"
modifier_refus(piece) ==
    IF piece.valide THEN "valide"
    ELSE IF exercices[piece.exercice_id].cloture THEN "exercice_cloture"
    ELSE "ok"

\* modifier_ecriture (POST): a new line takes its account, its project, its
\* budget line and its amounts from the form.
RECURSIVE LignesModifiees(_)
LignesModifiees(lignes) ==
    IF lignes = <<>> THEN <<>>
    ELSE <<[compte_id |-> Head(lignes).compte_id,
            projet_id |-> Head(lignes).projet_id,
            ligne_budget_id |-> Head(lignes).ligne_budget_id,
            debit |-> Head(lignes).debit,
            credit |-> Head(lignes).credit,
            imputations |-> <<>>]>> \o LignesModifiees(Tail(lignes))

modifier_ecriture(id, new_date, new_exercice_id, lignes) ==
    /\ id \in DOMAIN pieces
    /\ LET piece == pieces[id]
           echec(msg) ==
               /\ last' = Resultat("modifier", id, msg, 0)
               /\ audit' = {}
               /\ UNCHANGED <<exercices, pieces, modeles>>
       IN  IF modifier_refus(piece) # "ok" THEN echec(modifier_refus(piece))
           ELSE IF new_exercice_id \notin DOMAIN exercices
           THEN echec("exercice_invalide")
           ELSE IF exercices[new_exercice_id].cloture
           THEN echec("cible_cloturee")
           ELSE IF ~DansExercice(new_date, new_exercice_id)
           THEN echec("date")
           ELSE IF AvecImputations(piece.lignes) THEN echec("erreur")
           ELSE IF ~est_equilibree(piece.lignes) THEN echec("desequilibre")
           ELSE /\ pieces' = [pieces EXCEPT
                                 ![id].date_piece = new_date,
                                 ![id].exercice_id = new_exercice_id,
                                 ![id].lignes = LignesModifiees(lignes)]
                /\ audit' =
                       {[table |-> "pieces", record_id |-> id,
                         action |-> "UPDATE", valeur |-> new_date]}
                /\ last' = Resultat("modifier", id, "ok", 0)
                /\ UNCHANGED <<exercices, modeles>>

\* valider_ecriture
\* (valider_ecriture_et_lignes: a handler that also rewrites the lines of
\* the entry it validates)
valider_ecriture_et_lignes(id) ==
    /\ id \in DOMAIN pieces
    /\ pieces' = [pieces EXCEPT ![id].valide = TRUE, ![id].lignes = <<>>]
    /\ audit' = {}
    /\ last' = Resultat("valider", id, "ok", 0)
    /\ UNCHANGED <<exercices, modeles>>

valider_ecriture(id) ==
    /\ id \in DOMAIN pieces
    /\ IF pieces[id].valide
       THEN /\ last' = Resultat("valider", id, "deja_validee", 0)
            /\ audit' = {}
            /\ UNCHANGED <<exercices, pieces, modeles>>
       ELSE IF ~est_equilibree(pieces[id].lignes)
       THEN /\ last' = Resultat("valider", id, "desequilibre", 0)
            /\ audit' = {}
            /\ UNCHANGED <<exercices, pieces, modeles>>
       ELSE /\ pieces' = [pieces EXCEPT ![id].valide = TRUE]
            /\ audit' =
                   {[table |-> "pieces", record_id |-> id,
                     action |-> "VALIDATE", valeur |-> 1]}
            /\ last' = Resultat("valider", id, "ok", 0)
            /\ UNCHANGED <<exercices, modeles>>

\* invalider_ecriture
invalider_ecriture(id) ==
    /\ id \in DOMAIN pieces
    /\ IF ~pieces[id].valide
       THEN /\ last' = Resultat("invalider", id, "non_validee", 0)
            /\ audit' = {}
            /\ UNCHANGED <<exercices, pieces, modeles>>
       ELSE IF exercices[pieces[id].exercice_id].cloture
       THEN /\ last' = Resultat("invalider", id, "exercice_cloture", 0)
            /\ audit' = {}
            /\ UNCHANGED <<exercices, pieces, modeles>>
       ELSE /\ pieces' = [pieces EXCEPT ![id].valide = FALSE]
            /\ audit' =
                   {[table |-> "pieces", record_id |-> id,
                     action |-> "INVALIDATE", valeur |-> 0]}
            /\ last' = Resultat("invalider", id, "ok", 0)
            /\ UNCHANGED <<exercices, modeles>>

\* dupliquer_ecriture: the allocations of a line, copied one by one
\* (ImputationsOubliees: the copy of a line without them)
ImputationsOubliees(imputations) == <<>>
RECURSIVE ImputationsDupliquees(_)
ImputationsDupliquees(imputations) ==
    IF imputations = <<>> THEN <<>>
    ELSE <<[projet_id |-> Head(imputations).projet_id,
            pourcentage |-> Head(imputations).pourcentage,
            montant |-> Head(imputations).montant]>>
         \o ImputationsDupliquees(Tail(imputations))

\* dupliquer_ecriture: the lines of the source, copied one by one
RECURSIVE LignesDupliquees(_)
LignesDupliquees(lignes) ==
    IF lignes = <<>> THEN <<>>
    ELSE <<[compte_id |-> Head(lignes).compte_id,
            projet_id |-> Head(lignes).projet_id,
            ligne_budget_id |-> Head(lignes).ligne_budget_id,
            debit |-> Head(lignes).debit,
            credit |-> Head(lignes).credit,
            imputations |->
                ImputationsDupliquees(Head(lignes).imputations)]>>
         \o LignesDupliquees(Tail(lignes))

\* dupliquer_ecriture: the copy is dated today and goes to an open fiscal
\* year; log_audit runs after the commit and its row is never committed.
dupliquer_ecriture(id, aujourdhui) ==
    /\ id \in DOMAIN pieces
    /\ IF ExercicesOuverts = {}
       THEN /\ last' = Resultat("dupliquer", id, "aucun_exercice", 0)
            /\ audit' = {}
            /\ UNCHANGED <<exercices, pieces, modeles>>
       ELSE \E exercice \in ExercicesOuverts :
            /\ Len(pieces) < MaxPieces
            /\ pieces' = Append(pieces,
                  [numero |-> Numero(Len(pieces)),
                   date_piece |-> aujourdhui,
                   exercice_id |-> exercice,
                   valide |-> FALSE,
                   lignes |-> LignesDupliquees(pieces[id].lignes)])
            /\ last' = Resultat("dupliquer", Len(pieces) + 1, "ok", 0)
            /\ audit' = {}
            /\ UNCHANGED <<exercices, modeles>>

\* valider_lot_ecritures: ids may name entries that do not exist
AValider(ids) ==
    {i \in ids \cap DOMAIN pieces :
        ~pieces[i].valide /\ est_equilibree(pieces[i].lignes)}

valider_lot_ecritures(ids) ==
    /\ pieces' = [i \in DOMAIN pieces |->
                    IF i \in AValider(ids)
                    THEN [pieces[i] EXCEPT !.valide = TRUE]
                    ELSE pieces[i]]
    /\ audit' =
           {[table |-> "pieces", record_id |-> i, action |-> "VALIDATE",
             valeur |-> 1] : i \in AValider(ids)}
    /\ last' = Resultat("valider_lot", 0, "ok", Cardinality(AValider(ids)))
    /\ UNCHANGED <<exercices, modeles>>

\* ---- recurring templates ----

LigneModele(t, m) ==
    [compte_id |-> CompteSaisi, projet_id |-> 0, type_montant |-> t,
     montant |-> m]

\* The lines of a template form: one debit line alone, or followed by the
\* matching credit line.
LignesModele ==
    {<<LigneModele("debit", MontantDebit)>>,
     <<LigneModele("debit", MontantDebit), LigneModele("credit", MontantDebit)>>}

\* nouveau_modele_ecriture (POST): the lines are stored as typed
nouveau_modele_ecriture(lignes) ==
    /\ Len(modeles) < MaxModeles
    /\ modeles' = Append(modeles, [lignes |-> lignes])
    /\ last' = Resultat("nouveau_modele", Len(modeles) + 1, "ok", 0)
    /\ audit' = {}
    /\ UNCHANGED <<exercices, pieces>>

RECURSIVE LignesDuModele(_)
LignesDuModele(lm) ==
    IF lm = <<>> THEN <<>>
    ELSE <<[compte_id |-> Head(lm).compte_id,
            projet_id |-> Head(lm).projet_id,
            ligne_budget_id |-> 0,
            debit |-> IF Head(lm).type_montant = "debit"
                      THEN Head(lm).montant ELSE 0,
            credit |-> IF Head(lm).type_montant = "credit"
                       THEN Head(lm).montant ELSE 0,
            imputations |-> <<>>]>> \o LignesDuModele(Tail(lm))

\* generer_ecriture_modele: the entry is dated today, goes to an open fiscal
\* year and is committed as generated (derniere_execution is not modelled).
generer_ecriture_modele(id, aujourdhui) ==
    /\ id \in DOMAIN modeles
    /\ IF ExercicesOuverts = {}
       THEN /\ last' = Resultat("generer", 0, "aucun_exercice", 0)
            /\ audit' = {}
            /\ UNCHANGED <<exercices, pieces, modeles>>
       ELSE \E exercice \in ExercicesOuverts :
            /\ Len(pieces) < MaxPieces
            /\ pieces' = Append(pieces,
                  [numero |-> Numero(Len(pieces)),
                   date_piece |-> aujourdhui,
                   exercice_id |-> exercice,
                   valide |-> FALSE,
                   lignes |-> LignesDuModele(modeles[id].lignes)])
            /\ last' = Resultat("generer", Len(pieces) + 1, "ok", 0)
            /\ audit' = {}
            /\ UNCHANGED <<exercices, modeles>>

\* ---- Excel import ----

\* The rows of the sheet grouped by (date, journal, label, reference), in
\* the order of the sheet; the journal and the accounts exist.
GroupesSaisis ==
    UNION {[1..n -> [date_piece : Annees, lignes : LignesSaisies]] :
              n \in 1..MaxGroupes}

\* The loop over the groups: etat.pending are the entries added to the
\* session since its last rollback, etat.pieces_creees the counter.  The
\* rollback of an unbalanced group discards everything that is pending.
\* The query for the last entry flushes the pending ones first, so the
\* number counts them; a line of the sheet has an account, a project and
\* amounts and no budget line, as a line of the expert form.
RECURSIVE Importer(_, _, _)
Importer(groupes, exercice, etat) ==
    IF groupes = <<>> THEN etat
    ELSE LET g == Head(groupes) IN
         IF import_desequilibre(g.lignes)
         THEN Importer(Tail(groupes), exercice,
                       [pending |-> <<>>, pieces_creees |-> etat.pieces_creees])
         ELSE Importer(Tail(groupes), exercice,
                       [pending |-> Append(etat.pending,
                                      [numero |-> Numero(Len(pieces)
                                                    + Len(etat.pending)),
                                       date_piece |-> g.date_piece,
                                       exercice_id |-> exercice,
                                       valide |-> FALSE,
                                       lignes |-> LignesExpert(g.lignes)]),
                        pieces_creees |-> etat.pieces_creees + 1])

\* upload_import_ecritures
upload_import_ecritures(groupes) ==
    IF ExercicesOuverts = {}
    THEN /\ last' = Resultat("import", 0, "aucun_exercice", 0)
         /\ audit' = {}
         /\ UNCHANGED <<exercices, pieces, modeles>>
    ELSE \E exercice \in ExercicesOuverts :
         LET fin == Importer(groupes, exercice,
                             [pending |-> <<>>, pieces_creees |-> 0])
         IN  /\ Len(pieces) + Len(groupes) <= MaxPieces
             /\ pieces' = IF fin.pieces_creees > 0
                          THEN pieces \o fin.pending ELSE pieces
             /\ last' = Resultat("import", 0, "ok", fin.pieces_creees)
             /\ audit' = {}
             /\ UNCHANGED <<exercices, modeles>>

Next ==
    \/ \E annee \in Annees :
          nouvel_exercice(annee) /\ UNCHANGED hors_ecritures
    \/ \E id \in DOMAIN exercices, force \in BOOLEAN :
          cloturer_exercice(id, force) /\ UNCHANGED hors_ecritures
    \/ \E t \in OperationsSimplifiees, d \in Annees, v \in Ventilations :
          /\ nouvelle_ecriture_simplifiee(t, MontantDebit, d, v,
                                          SaisieParDefaut)
          /\ UNCHANGED hors_ecritures
    \/ \E e \in DOMAIN exercices, d \in Annees, l \in LignesSaisies :
          nouvelle_ecriture_expert(e, d, l) /\ UNCHANGED hors_ecritures
    \/ \E id \in DOMAIN pieces, d \in Annees, e \in 0..Len(exercices),
          l \in LignesSaisies :
          modifier_ecriture(id, d, e, l) /\ UNCHANGED hors_ecritures
    \/ \E id \in DOMAIN pieces :
          valider_ecriture(id) /\ UNCHANGED hors_ecritures
    \/ \E id \in DOMAIN pieces :
          invalider_ecriture(id) /\ UNCHANGED hors_ecritures
    \/ \E id \in DOMAIN pieces, auj \in Annees :
          dupliquer_ecriture(id, auj) /\ UNCHANGED hors_ecritures
    \/ \E ids \in SUBSET (1..MaxPieces) :
          valider_lot_ecritures(ids) /\ UNCHANGED hors_ecritures
    \/ \E l \in LignesModele :
          nouveau_modele_ecriture(l) /\ UNCHANGED hors_ecritures
    \/ \E id \in DOMAIN modeles, auj \in Annees :
          generer_ecriture_modele(id, auj) /\ UNCHANGED hors_ecritures
    \/ \E g \in GroupesSaisis :
          upload_import_ecritures(g) /\ UNCHANGED hors_ecritures

Spec == Init /\ [][Next]_vars

\* ---- signed amounts ----

\* The amounts a form or a sheet can carry: Decimal() and float() parse a
\* leading minus sign, and no handler looks at the sign.
MontantsSignes == {0 - MontantDebit, MontantDebit}

LignesSignees == {<<Ligne(m, 0), Ligne(0, m)>> : m \in MontantsSignes}

GroupesSignes == [1..1 -> [date_piece : Annees, lignes : LignesSignees]]

\* The entry handlers that take amounts from the caller, with signed amounts
NextSignes ==
    \/ \E t \in OperationsSimplifiees, m \in MontantsSignes, d \in Annees,
          v \in Ventilations :
          /\ nouvelle_ecriture_simplifiee(t, m, d, v, SaisieParDefaut)
          /\ UNCHANGED hors_ecritures
    \/ \E e \in DOMAIN exercices, d \in Annees, l \in LignesSignees :
          nouvelle_ecriture_expert(e, d, l) /\ UNCHANGED hors_ecritures
    \/ \E id \in DOMAIN pieces, d \in Annees, e \in DOMAIN exercices,
          l \in LignesSignees :
          modifier_ecriture(id, d, e, l) /\ UNCHANGED hors_ecritures
    \/ \E g \in GroupesSignes :
          upload_import_ecritures(g) /\ UNCHANGED hors_ecritures

SpecSignes == Init /\ [][NextSignes]_vars

\* ---- advances ----

MaxAvances == 2
MaxMontantAvance == 4

\* The amounts of the advance forms, in hundredths.
MontantsAvance == {MaxMontantAvance}
MontantsJustifies == 0..MaxMontantAvance
MontantsRembourses == 0..1

\* Avance.solde_restant subtracts Python floats.  The triples <<montant,
\* montant_justifie, montant_rembourse>> of hundredths up to 0.12 with
\* montant = montant_justifie + montant_rembourse for which
\* float(montant) - float(montant_justifie) - float(montant_rembourse) is
\* strictly positive (IEEE-754 double); for the other such triples it is
\* zero or negative.
FloatSoldePositif ==
    {<<4, 3, 1>>, <<5, 2, 3>>, <<5, 3, 2>>, <<5, 4, 1>>, <<7, 1, 6>>,
     <<7, 3, 4>>, <<7, 4, 3>>, <<7, 5, 2>>, <<7, 6, 1>>, <<8, 6, 2>>,
     <<10, 1, 9>>, <<10, 4, 6>>, <<10, 6, 4>>, <<10, 8, 2>>, <<10, 9, 1>>,
     <<11, 9, 2>>}

\* Avance.solde_restant <= 0, as justifier_avance tests it
solde_restant_epuise(avance) ==
    LET reste == avance.montant - avance.montant_justifie
                     - avance.montant_rembourse
    IN  \/ reste < 0
        \/ /\ reste = 0
           /\ <<avance.montant, avance.montant_justifie,
                avance.montant_rembourse>> \notin FloatSoldePositif

\* nouvelle_avance (POST)
nouvelle_avance(montant) ==
    /\ Len(avances) < MaxAvances
    /\ avances' = Append(avances,
          [montant |-> montant, statut |-> "en_attente",
           montant_justifie |-> 0, montant_rembourse |-> 0])
    /\ audit' = {[table |-> "avances", record_id |-> 0,
                  action |-> "CREATE", valeur |-> montant]}
    /\ last' = Resultat("nouvelle_avance", Len(avances) + 1, "ok", 0)
    /\ UNCHANGED <<exercices, pieces, modeles, immobilisations, financements,
                 requetes, gestion>>

\* justifier_avance: only a pending or a partly justified advance
\* (justifier_refus_jamais: the handler without this test)
justifier_refus_jamais(avance) == FALSE
justifier_refus(avance) == avance.statut \notin {"en_attente", "justifiee"}

\* justifier_avance (POST)
justifier_avance(id, montant_justifie, montant_rembourse) ==
    /\ id \in DOMAIN avances
    /\ IF justifier_refus(avances[id])
       THEN /\ last' = Resultat("justifier", id, "refus", 0)
            /\ audit' = {}
            /\ UNCHANGED avances
       ELSE LET saisie == [avances[id] EXCEPT
                              !.montant_justifie = montant_justifie,
                              !.montant_rembourse = montant_rembourse]
                statut == IF solde_restant_epuise(saisie)
                          THEN "soldee" ELSE "justifiee"
            IN  /\ avances' = [avances EXCEPT
                                  ![id] = [saisie EXCEPT !.statut = statut]]
                /\ audit' = {[table |-> "avances", record_id |-> id,
                              action |-> "JUSTIFIER",
                              valeur |-> montant_justifie]}
                /\ last' = Resultat("justifier", id, "ok", 0)
    /\ UNCHANGED <<exercices, pieces, modeles, immobilisations, financements,
                 requetes, gestion>>

\* deduire_avance: not after the advance is settled or deducted
\* (deduire_refus_jamais: the handler without this test)
deduire_refus_jamais(avance) == FALSE
deduire_refus(avance) == avance.statut = "soldee" \/ avance.statut = "deduite"

\* deduire_avance (POST)
deduire_avance(id) ==
    /\ id \in DOMAIN avances
    /\ IF deduire_refus(avances[id])
       THEN /\ last' = Resultat("deduire", id, "refus", 0)
            /\ audit' = {}
            /\ UNCHANGED avances
       ELSE /\ avances' = [avances EXCEPT ![id].statut = "deduite"]
            /\ audit' = {[table |-> "avances", record_id |-> id,
                          action |-> "DEDUIRE", valeur |-> 0]}
            /\ last' = Resultat("deduire", id, "ok", 0)
    /\ UNCHANGED <<exercices, pieces, modeles, immobilisations, financements,
                 requetes, gestion>>

NextAvances ==
    \/ \E m \in MontantsAvance : nouvelle_avance(m)
    \/ \E id \in DOMAIN avances, mj \in MontantsJustifies,
          mr \in MontantsRembourses : justifier_avance(id, mj, mr)
    \/ \E id \in DOMAIN avances : deduire_avance(id)

SpecAvances == Init /\ [][NextAvances]_vars

\* ---- fixed assets ----

MaxImmobilisations == 1
MaxValeur == 1

\* The acquisition values of the form, in hundredths: whole units.  With the
\* useful lives below no dotation falls on half a hundredth, where the result
\* of the Numeric(15, 2) column follows the binary representation.
ValeursAcquisition == {100 * k : k \in 1..MaxValeur}

\* Two of the standard useful lives (informatique, vehicule)
DureesAmortissement == {3, 5}

\* January (a full first year) and July
MoisAcquisition == {1, 7}

\* The reason of the disposal form: request.form.get('motif_sortie') is
\* stored as the status without being compared with the two reasons.
MotifsSortie == {"cede", "rebut", "actif"}

\* The sale value of the disposal form; 0 is the empty field.
ValeursCession == {0, 50}

\* A Numeric(15, 2) column: the nearest hundredth of n / d
Arrondi(n, d) == (2 * n + d) \div (2 * d)

RECURSIVE SumDotations(_)
SumDotations(lignes) ==
    IF lignes = <<>> THEN 0
    ELSE Head(lignes).dotation + SumDotations(Tail(lignes))

\* Immobilisation.cumul_amortissement
cumul_amortissement(immobilisation) ==
    SumDotations(immobilisation.lignes_amortissement)

\* calculer_amortissement: mois_restants of the first year, the month of
\* the acquisition included (mois_restants_sans_mois_courant: excluded)
mois_restants_sans_mois_courant(immobilisation) ==
    12 - immobilisation.mois_acquisition
mois_restants(immobilisation) == 12 - immobilisation.mois_acquisition + 1

\* calculer_amortissement: the dotation of the fiscal year, from
\* Immobilisation.amortissement_annuel, pro rata temporis in the year of the
\* acquisition
dotation_exercice(immobilisation, annee) ==
    IF immobilisation.annee_acquisition = annee
    THEN Arrondi(immobilisation.valeur_acquisition
                     * mois_restants(immobilisation),
                 immobilisation.duree_amortissement * 12)
    ELSE Arrondi(immobilisation.valeur_acquisition,
                 immobilisation.duree_amortissement)

\* nouvelle_immobilisation (POST)
nouvelle_immobilisation(annee, mois, valeur, duree) ==
    /\ Len(immobilisations) < MaxImmobilisations
    /\ immobilisations' = Append(immobilisations,
          [annee_acquisition |-> annee, mois_acquisition |-> mois,
           valeur_acquisition |-> valeur, duree_amortissement |-> duree,
           statut |-> "actif", date_sortie |-> 0, valeur_cession |-> 0,
           lignes_amortissement |-> <<>>])
    /\ audit' = {[table |-> "immobilisations", record_id |-> 0,
                  action |-> "CREATE", valeur |-> valeur]}
    /\ last' = Resultat("nouvelle_immobilisation",
                        Len(immobilisations) + 1, "ok", 0)
    /\ UNCHANGED <<exercices, pieces, modeles, avances, financements,
                 requetes, gestion>>

\* calculer_amortissement: a line of this asset for this fiscal year exists
\* (deja_calcule_jamais: the handler without this test)
deja_calcule_jamais(id, exercice) == FALSE
deja_calcule(id, exercice) ==
    \E k \in DOMAIN immobilisations[id].lignes_amortissement :
        immobilisations[id].lignes_amortissement[k].exercice_id = exercice

\* calculer_amortissement (POST)
calculer_amortissement(id) ==
    /\ id \in DOMAIN immobilisations
    /\ LET immobilisation == immobilisations[id]
           echec(msg) ==
               /\ last' = Resultat("calculer", id, msg, 0)
               /\ audit' = {}
               /\ UNCHANGED immobilisations
       IN  IF immobilisation.statut # "actif" THEN echec("inactive")
           ELSE IF ExercicesOuverts = {} THEN echec("aucun_exercice")
           ELSE \E exercice \in ExercicesOuverts :
                IF deja_calcule(id, exercice) THEN echec("deja_calcule")
                ELSE LET annee == exercices[exercice].annee
                         dotation == dotation_exercice(immobilisation, annee)
                         cumul_nouveau ==
                             cumul_amortissement(immobilisation) + dotation
                     IN  /\ immobilisations' =
                               [immobilisations EXCEPT
                                  ![id].lignes_amortissement =
                                     Append(@,
                                       [exercice_id |-> exercice,
                                        annee |-> annee,
                                        dotation |-> dotation,
                                        cumul |-> cumul_nouveau,
                                        valeur_nette |->
                                          immobilisation.valeur_acquisition
                                              - cumul_nouveau])]
                         /\ audit' = {[table |-> "lignes_amortissement",
                                       record_id |-> 0, action |-> "CREATE",
                                       valeur |-> dotation]}
                         /\ last' = Resultat("calculer", id, "ok", 0)
    /\ UNCHANGED <<exercices, pieces, modeles, avances, financements,
                 requetes, gestion>>

\* sortie_immobilisation (POST)
sortie_immobilisation(id, motif_sortie, date_sortie, valeur_cession) ==
    /\ id \in DOMAIN immobilisations
    /\ IF immobilisations[id].statut # "actif"
       THEN /\ last' = Resultat("sortie", id, "deja_sortie", 0)
            /\ audit' = {}
            /\ UNCHANGED immobilisations
       ELSE /\ immobilisations' =
                  [immobilisations EXCEPT
                     ![id].statut = motif_sortie,
                     ![id].date_sortie = date_sortie,
                     ![id].valeur_cession =
                        IF valeur_cession # 0 THEN valeur_cession ELSE @]
            /\ audit' = {[table |-> "immobilisations", record_id |-> id,
                          action |-> "SORTIE", valeur |-> date_sortie]}
            /\ last' = Resultat("sortie", id, "ok", 0)
    /\ UNCHANGED <<exercices, pieces, modeles, avances, financements,
                 requetes, gestion>>

NextImmobilisations ==
    \/ \E annee \in Annees :
          nouvel_exercice(annee) /\ UNCHANGED hors_ecritures
    \/ \E id \in DOMAIN exercices, force \in BOOLEAN :
          cloturer_exercice(id, force) /\ UNCHANGED hors_ecritures
    \/ \E annee \in Annees, mois \in MoisAcquisition,
          valeur \in ValeursAcquisition, duree \in DureesAmortissement :
          nouvelle_immobilisation(annee, mois, valeur, duree)
    \/ \E id \in DOMAIN immobilisations : calculer_amortissement(id)
    \/ \E id \in DOMAIN immobilisations, motif \in MotifsSortie,
          d \in Annees, vc \in ValeursCession :
          sortie_immobilisation(id, motif, d, vc)

SpecImmobilisations == Init /\ [][NextImmobilisations]_vars

\* The useful lives of the form, the shortest included: the field is any
\* integer (int(request.form.get('duree_amortissement'))).
DureesCourtes == {1, 3}

\* The handlers of the depreciation schedule, for assets of a short life.
NextAmortissements ==
    \/ \E annee \in Annees :
          nouvel_exercice(annee) /\ UNCHANGED hors_ecritures
    \/ \E id \in DOMAIN exercices, force \in BOOLEAN :
          cloturer_exercice(id, force) /\ UNCHANGED hors_ecritures
    \/ \E annee \in Annees, mois \in MoisAcquisition,
          valeur \in ValeursAcquisition, duree \in DureesCourtes :
          nouvelle_immobilisation(annee, mois, valeur, duree)
    \/ \E id \in DOMAIN immobilisations : calculer_amortissement(id)

SpecAmortissements == Init /\ [][NextAmortissements]_vars

\* ---- financings and their tranches ----

MaxFinancements == 1
MaxTranches == 2
MaxNumero == 3
MaxMontantTranche == 2

\* The planned and the received amounts of the forms, in hundredths.
MontantsPrevus == 1..MaxMontantTranche
MontantsRecus == 0..MaxMontantTranche

\* The tranche rows of the financing form, in the order of their index; 0 is
\* an empty tranche_<i>_montant field.
TranchesSaisies ==
    UNION {[1..n -> {0} \cup MontantsPrevus] : n \in 1..MaxTranches}

Tranche(numero, montant_prevu) ==
    [numero |-> numero, montant_prevu |-> montant_prevu,
     montant_recu |-> 0, statut |-> "attendu"]

\* nouveau_financement: one tranche per filled row, numbered by its index
RECURSIVE TranchesInitiales(_, _)
TranchesInitiales(saisies, i) ==
    IF i > Len(saisies) THEN <<>>
    ELSE (IF saisies[i] # 0 THEN <<Tranche(i, saisies[i])>> ELSE <<>>)
         \o TranchesInitiales(saisies, i + 1)

\* nouveau_financement (POST); the audit row is added after the commit and
\* is never committed.
nouveau_financement(saisies) ==
    /\ Len(financements) < MaxFinancements
    /\ financements' = Append(financements,
          [supprime |-> FALSE, tranches |-> TranchesInitiales(saisies, 1)])
    /\ audit' = {}
    /\ last' = Resultat("nouveau_financement", Len(financements) + 1, "ok", 0)
    /\ UNCHANGED <<exercices, pieces, modeles, avances, immobilisations,
                 requetes, gestion>>

\* supprimer_financement / supprimer_tranche: the tranche was received,
\* fully or partly (tranche_recue_jamais: the handlers without this test)
tranche_recue_jamais(t) == FALSE
tranche_recue(t) ==
    t.statut \in {"recu", "partiel"} \/ (t.montant_recu # 0 /\ t.montant_recu > 0)

\* supprimer_financement (POST): the tranches go with the financing
supprimer_financement(id) ==
    /\ id \in DOMAIN financements
    /\ ~financements[id].supprime
    /\ IF \E k \in DOMAIN financements[id].tranches :
              tranche_recue(financements[id].tranches[k])
       THEN /\ last' = Resultat("supprimer_financement", id, "refus", 0)
            /\ audit' = {}
            /\ UNCHANGED financements
       ELSE /\ financements' = [financements EXCEPT
                                   ![id] = [supprime |-> TRUE,
                                            tranches |-> <<>>]]
            /\ audit' = {[table |-> "financement", record_id |-> id,
                          action |-> "DELETE", valeur |-> 0]}
            /\ last' = Resultat("supprimer_financement", id, "ok", 0)
    /\ UNCHANGED <<exercices, pieces, modeles, avances, immobilisations,
                 requetes, gestion>>

\* ajouter_tranche: max([t.numero for t in financement.tranches], default=0)
\* (nombre_tranches: the count of the tranches instead of their largest
\* number)
nombre_tranches(tranches) == Len(tranches)
dernier_numero(tranches) ==
    IF tranches = <<>> THEN 0
    ELSE CHOOSE n \in {tranches[k].numero : k \in DOMAIN tranches} :
             \A k \in DOMAIN tranches : tranches[k].numero <= n

\* ajouter_tranche (POST)
ajouter_tranche(id, montant_prevu) ==
    /\ id \in DOMAIN financements
    /\ ~financements[id].supprime
    /\ Len(financements[id].tranches) < MaxTranches
    /\ dernier_numero(financements[id].tranches) < MaxNumero
    /\ financements' = [financements EXCEPT
          ![id].tranches =
              Append(@, Tranche(dernier_numero(@) + 1, montant_prevu))]
    /\ audit' = {}
    /\ last' = Resultat("ajouter_tranche", id, "ok",
                        dernier_numero(financements[id].tranches) + 1)
    /\ UNCHANGED <<exercices, pieces, modeles, avances, immobilisations,
                 requetes, gestion>>

\* recevoir_tranche: recu when the whole planned amount came in
\* (statut_reception_strict: only when more than the planned amount did)
statut_reception_strict(montant_recu, montant_prevu) ==
    IF montant_recu > montant_prevu THEN "recu" ELSE "partiel"
statut_reception(montant_recu, montant_prevu) ==
    IF montant_recu >= montant_prevu THEN "recu" ELSE "partiel"

\* recevoir_tranche (POST) on the k-th tranche of the financing; fourni says
\* whether the form carries montant_recu.  The audit row is added after the
\* commit and is never committed.
recevoir_tranche(id, k, fourni, montant_recu) ==
    /\ id \in DOMAIN financements
    /\ k \in DOMAIN financements[id].tranches
    /\ LET t == financements[id].tranches[k]
           recu == IF fourni THEN montant_recu ELSE t.montant_prevu
       IN  /\ financements' = [financements EXCEPT
                 ![id].tranches[k] =
                     [t EXCEPT !.montant_recu = recu,
                               !.statut =
                                   statut_reception(recu, t.montant_prevu)]]
           /\ last' = Resultat("recevoir", id, "ok", t.numero)
    /\ audit' = {}
    /\ UNCHANGED <<exercices, pieces, modeles, avances, immobilisations,
                 requetes, gestion>>

\* The sequence without its k-th element
SansElement(seq, k) == SubSeq(seq, 1, k - 1) \o SubSeq(seq, k + 1, Len(seq))

\* supprimer_tranche (POST) on the k-th tranche of the financing
supprimer_tranche(id, k) ==
    /\ id \in DOMAIN financements
    /\ k \in DOMAIN financements[id].tranches
    /\ LET t == financements[id].tranches[k] IN
       IF tranche_recue(t)
       THEN /\ last' = Resultat("supprimer_tranche", id, "refus", t.numero)
            /\ UNCHANGED financements
       ELSE /\ financements' = [financements EXCEPT
                                   ![id].tranches = SansElement(@, k)]
            /\ last' = Resultat("supprimer_tranche", id, "ok", t.numero)
    /\ audit' = {}
    /\ UNCHANGED <<exercices, pieces, modeles, avances, immobilisations,
                 requetes, gestion>>

NextFinancements ==
    \/ \E saisies \in TranchesSaisies : nouveau_financement(saisies)
    \/ \E id \in DOMAIN financements : supprimer_financement(id)
    \/ \E id \in DOMAIN financements, m \in MontantsPrevus :
          ajouter_tranche(id, m)
    \/ \E id \in DOMAIN financements, k \in 1..MaxTranches,
          fourni \in BOOLEAN, m \in MontantsRecus :
          recevoir_tranche(id, k, fourni, m)
    \/ \E id \in DOMAIN financements, k \in 1..MaxTranches :
          supprimer_tranche(id, k)

SpecFinancements == Init /\ [][NextFinancements]_vars

\* ---- ventilated expenses and their copies ----

\* The amount of a ventilated expense, in hundredths: its halves are whole
\* hundredths.
MontantVentile == 2 * MaxMontant

PartVentilee(projet_id, pourcentage) ==
    [projet_id |-> projet_id, pourcentage |-> pourcentage]

\* The ventilations of the expense form: none, and lists of one or two
\* projects that total 50, 100 or 150 %.
VentilationsSaisies ==
    {<<>>,
     <<PartVentilee(1, 100)>>,
     <<PartVentilee(1, 50)>>,
     <<PartVentilee(1, 50), PartVentilee(2, 50)>>,
     <<PartVentilee(1, 100), PartVentilee(2, 50)>>}

\* The expense form: an expense account, a treasury account, a project and
\* a budget line.
SaisieDepense ==
    [compte_debit |-> 601, compte_credit |-> 521, projet_id |-> 1,
     ligne_budget_id |-> 1]

NextVentilation ==
    \/ \E id \in DOMAIN exercices, force \in BOOLEAN :
          cloturer_exercice(id, force) /\ UNCHANGED hors_ecritures
    \/ \E d \in Annees, v \in VentilationsSaisies :
          /\ nouvelle_ecriture_simplifiee("depense", MontantVentile, d, v,
                                          SaisieDepense)
          /\ UNCHANGED hors_ecritures
    \/ \E id \in DOMAIN pieces :
          valider_ecriture(id) /\ UNCHANGED hors_ecritures
    \/ \E id \in DOMAIN pieces, auj \in Annees :
          dupliquer_ecriture(id, auj) /\ UNCHANGED hors_ecritures

SpecVentilation == Init /\ [][NextVentilation]_vars

\* ---- reports ----

\* The class of an account of the chart: init_db gives every account the
\* first digit of its number as classe; the accounts of the model have
\* three digits.
classe(compte_id) == compte_id \div 100

\* The accounts of the chart the model names: personnel advances
\* (class 4), bank (class 5), purchases (class 6).
PlanComptable == {CompteAvance, 521, 601}

\* The budget lines of the model.
LignesBudget == {1}

\* balance_generale, calculer_soldes_classe: the filter on valide
\* (ecriture_retenue_toujours: the query without it)
ecriture_retenue_toujours(piece, inclure_non_validees) == TRUE
ecriture_retenue(piece, inclure_non_validees) ==
    inclure_non_validees \/ piece.valide

\* balance_generale, calculer_soldes_classe: the sums of the query for one
\* account over the entries 1..i, with the number n of rows they are taken
\* over; exercice_id = 0 stands for no exercice_id in the request
RECURSIVE total_jusqua(_, _, _, _)
total_jusqua(i, compte_id, exercice_id, inclure_non_validees) ==
    IF i = 0
    THEN [numero |-> compte_id, n |-> 0, total_debit |-> 0, total_credit |-> 0]
    ELSE LET avant == total_jusqua(i - 1, compte_id, exercice_id,
                                   inclure_non_validees)
             lignes == SelectSeq(pieces[i].lignes,
                                 LAMBDA l : l.compte_id = compte_id)
         IN  IF /\ ecriture_retenue(pieces[i], inclure_non_validees)
                /\ exercice_id # 0 => pieces[i].exercice_id = exercice_id
             THEN [numero |-> compte_id,
                   n |-> avant.n + Len(lignes),
                   total_debit |-> avant.total_debit + SumDebit(lignes),
                   total_credit |-> avant.total_credit + SumCredit(lignes)]
             ELSE avant

total_du_compte(compte_id, exercice_id, inclure_non_validees) ==
    total_jusqua(Len(pieces), compte_id, exercice_id, inclure_non_validees)

\* balance_generale: one row per account that has lines in the query (the
\* inner joins and the GROUP BY)
balance_generale(exercice_id, inclure_non_validees) ==
    {LET debit == row.total_debit
         credit == row.total_credit
     IN  [numero |-> row.numero, debit |-> debit, credit |-> credit,
          solde_debit |-> IF debit > credit THEN debit - credit ELSE 0,
          solde_credit |-> IF credit > debit THEN credit - debit ELSE 0] :
     row \in {row \in {total_du_compte(c, exercice_id, inclure_non_validees) :
                          c \in PlanComptable} : row.n > 0}}

\* calculer_soldes_classe: abs(solde) > 0.01 on floats
solde_significatif(debit, credit) ==
    \/ Abs(debit - credit) >= 2
    \/ Abs(debit - credit) = 1 /\ HiLo(debit, credit) \in FloatDiffAboveCent

\* calculer_soldes_classe, called by etats_financiers with the default
\* inclure_non_validees = False
calculer_soldes_classe(classes, exercice_id, type_solde) ==
    {[numero |-> row.numero,
      solde |-> IF type_solde = "passif"
                THEN row.total_credit - row.total_debit
                ELSE row.total_debit - row.total_credit] :
     row \in {row \in {total_du_compte(c, exercice_id, FALSE) :
                          c \in {c \in PlanComptable : classe(c) \in classes}} :
                 /\ row.n > 0
                 /\ solde_significatif(row.total_debit, row.total_credit)}}

RECURSIVE SommeSoldes(_)
SommeSoldes(rows) ==
    IF rows = {} THEN 0
    ELSE LET row == CHOOSE x \in rows : TRUE
         IN  row.solde + SommeSoldes(rows \ {row})

\* etats_financiers; exercice_id = 0 stands for no exercice_id in the
\* request: the fiscal year of the largest annee is taken
etats_financiers(exercice_id) ==
    LET e == IF exercice_id # 0 THEN exercice_id
             ELSE CHOOSE x \in DOMAIN exercices :
                     \A y \in DOMAIN exercices :
                         exercices[y].annee <= exercices[x].annee
         charges == calculer_soldes_classe({6}, e, "")
         produits == calculer_soldes_classe({7}, e, "")
    IN  [actif |-> calculer_soldes_classe({2, 3, 4, 5}, e, "actif"),
         passif |-> calculer_soldes_classe({1, 4}, e, "passif"),
         charges |-> charges,
         produits |-> produits,
         resultat |-> SommeSoldes(produits) - SommeSoldes(charges)]

\* detail_projet, calculate_rapport_data: the account of a realized line
\* is of class 6 (compte_de_charge_toujours: the query without this filter)
compte_de_charge_toujours(compte_id) == TRUE
compte_de_charge(compte_id) == classe(compte_id) = 6

\* detail_projet, calculate_rapport_data: the realized amount of a budget
\* line over the entries 1..i; annee_filtre = 0 stands for no filter on
\* the date of the entry
RECURSIVE realise_jusqua(_, _, _)
realise_jusqua(i, ligne_budget_id, annee_filtre) ==
    IF i = 0 THEN 0
    ELSE LET lignes ==
                 SelectSeq(pieces[i].lignes,
                           LAMBDA l : /\ l.ligne_budget_id = ligne_budget_id
                                      /\ compte_de_charge(l.compte_id))
         IN  realise_jusqua(i - 1, ligne_budget_id, annee_filtre)
             + (IF annee_filtre # 0 => pieces[i].date_piece = annee_filtre
                THEN SumDebit(lignes) ELSE 0)

realise(ligne_budget_id, annee_filtre) ==
    realise_jusqua(Len(pieces), ligne_budget_id, annee_filtre)

\* A line of the edit form on an account and a budget line.
LigneSur(compte_id, ligne_budget_id, d, c) ==
    [compte_id |-> compte_id, projet_id |-> 0,
     ligne_budget_id |-> ligne_budget_id,
     debit |-> d, credit |-> c, imputations |-> <<>>]

\* The line lists of the edit form: an expense on the budget line, and its
\* refund (the credit on the expense account and the debit on the bank
\* account both name the budget line).
LignesRapports ==
    {<<LigneSur(601, 1, MontantDebit, 0), LigneSur(521, 0, 0, MontantDebit)>>,
     <<LigneSur(521, 1, MontantDebit, 0), LigneSur(601, 1, 0, MontantDebit)>>}

\* The expense forms: an expense on the budget line, an expense without a
\* budget line, and a form that names the bank account as the expense
\* account.
SaisiesRapports ==
    {[compte_debit |-> 601, compte_credit |-> 521, projet_id |-> 1,
      ligne_budget_id |-> 1],
     [compte_debit |-> 601, compte_credit |-> 521, projet_id |-> 0,
      ligne_budget_id |-> 0],
     [compte_debit |-> 521, compte_credit |-> 601, projet_id |-> 1,
      ligne_budget_id |-> 1]}

NextRapports ==
    \/ \E annee \in Annees :
          nouvel_exercice(annee) /\ UNCHANGED hors_ecritures
    \/ \E d \in Annees, saisie \in SaisiesRapports :
          /\ nouvelle_ecriture_simplifiee("depense", MontantDebit, d, <<>>,
                                          saisie)
          /\ UNCHANGED hors_ecritures
    \/ \E id \in DOMAIN pieces, e \in DOMAIN exercices,
          l \in LignesRapports :
          /\ modifier_ecriture(id, pieces[id].date_piece, e, l)
          /\ UNCHANGED hors_ecritures
    \/ \E id \in DOMAIN pieces :
          valider_ecriture(id) /\ UNCHANGED hors_ecritures
    \/ \E id \in DOMAIN pieces :
          invalider_ecriture(id) /\ UNCHANGED hors_ecritures
    \/ \E id \in DOMAIN pieces, auj \in Annees :
          dupliquer_ecriture(id, auj) /\ UNCHANGED hors_ecritures

SpecRapports == Init /\ [][NextRapports]_vars

\* ---- concurrent requests ----

\* The line lists of the forms of concurrent requests: balanced, of
\* different amounts.
LignesConcurrentes == {<<Ligne(m, 0), Ligne(0, m)>> : m \in 1..2}

HandlersCreation == {"expert", "dupliquer", "generer"}

\* The unique index on pieces.numero: an INSERT of a number that a row
\* already carries raises IntegrityError
\* (numero_pris_jamais: the table without the index)
numero_pris_jamais(numero) == FALSE
numero_pris(numero) == \E i \in DOMAIN pieces : pieces[i].numero = numero

\* nouvelle_ecriture (expert), dupliquer_ecriture, generer_ecriture_modele,
\* up to the construction of the PieceComptable: the request has looked
\* for an open fiscal year, has read the last entry and has built its
\* number.  id is the entry to copy or the template to run.
lire_dernier(r, handler, id) ==
    /\ requetes[r] = Libre
    /\ handler = "dupliquer" => id \in DOMAIN pieces
    /\ handler = "generer" => id \in DOMAIN modeles
    /\ Len(pieces) < MaxPieces
    /\ IF ExercicesOuverts = {}
       THEN /\ last' = Resultat(handler, 0, "aucun_exercice", 0)
            /\ audit' = {}
            /\ UNCHANGED requetes
       ELSE \E exercice \in ExercicesOuverts :
            /\ requetes' = [requetes EXCEPT ![r] =
                   [etape |-> "numerote", handler |-> handler, id |-> id,
                    exercice_id |-> exercice,
                    dernier |-> Len(pieces),
                    numero |-> Numero(Len(pieces))]]
            /\ UNCHANGED <<audit, last>>
    /\ UNCHANGED <<exercices, pieces, modeles, avances, immobilisations,
                   financements, gestion>>

\* nouvelle_ecriture (expert), dupliquer_ecriture, generer_ecriture_modele,
\* from db.session.add(piece) to the commit.  The lines of the source of a
\* copy are loaded here, after the flush of the new entry.
inserer(r, date_piece, lignes) ==
    /\ requetes[r].etape = "numerote"
    /\ LET q == requetes[r]
           nouvelles ==
               IF q.handler = "expert" THEN LignesExpert(lignes)
               ELSE IF q.handler = "dupliquer"
               THEN LignesDupliquees(pieces[q.id].lignes)
               ELSE LignesDuModele(modeles[q.id].lignes)
       IN  IF numero_pris(q.numero)
           THEN /\ last' = Resultat(q.handler, 0, "numero_pris", 0)
                /\ UNCHANGED pieces
           ELSE IF q.handler = "expert" /\ ~est_equilibree_float(lignes)
           THEN /\ last' = Resultat(q.handler, 0, "desequilibre", 0)
                /\ UNCHANGED pieces
           ELSE /\ Len(pieces) < MaxPieces
                /\ pieces' = Append(pieces,
                      [numero |-> q.numero,
                       date_piece |-> date_piece,
                       exercice_id |-> q.exercice_id,
                       valide |-> FALSE,
                       lignes |-> nouvelles])
                /\ last' = Resultat(q.handler, Len(pieces) + 1, "ok", 0)
    /\ requetes' = [requetes EXCEPT ![r] = Libre]
    /\ audit' = {}
    /\ UNCHANGED <<exercices, modeles, avances, immobilisations, financements, gestion>>

\* modifier_ecriture (POST) up to the loop that deletes the lines: the
\* checks have passed, the header fields are set on the loaded entry and
\* piece.lignes is loaded.  presentes are the positions, among the lines
\* the entry has now, of the loaded lines that are still in the table.
modifier_ecriture_charger(r, id, new_date, new_exercice_id) ==
    /\ requetes[r] = Libre
    /\ id \in DOMAIN pieces
    /\ LET piece == pieces[id]
           echec(msg) ==
               /\ last' = Resultat("modifier", id, msg, 0)
               /\ audit' = {}
               /\ UNCHANGED requetes
       IN  IF modifier_refus(piece) # "ok" THEN echec(modifier_refus(piece))
           ELSE IF new_exercice_id \notin DOMAIN exercices
           THEN echec("exercice_invalide")
           ELSE IF exercices[new_exercice_id].cloture
           THEN echec("cible_cloturee")
           ELSE IF ~DansExercice(new_date, new_exercice_id)
           THEN echec("date")
           ELSE /\ requetes' = [requetes EXCEPT ![r] =
                       [etape |-> "charge", handler |-> "modifier",
                        id |-> id, new_date |-> new_date,
                        new_exercice_id |-> new_exercice_id,
                        lignes_chargees |-> piece.lignes,
                        presentes |-> DOMAIN piece.lignes]]
                /\ UNCHANGED <<audit, last>>
    /\ UNCHANGED <<exercices, pieces, modeles, avances, immobilisations,
                   financements, gestion>>

\* The rows of a sequence that are not at the positions of the set.
RECURSIVE SansPositions(_, _)
SansPositions(seq, positions) ==
    IF seq = <<>> THEN <<>>
    ELSE SansPositions(SubSeq(seq, 1, Len(seq) - 1), positions)
         \o (IF Len(seq) \in positions THEN <<>> ELSE <<seq[Len(seq)]>>)

\* The positions of the rows of a set once the rows at the deleted
\* positions are gone.
Decalees(positions, supprimees) ==
    {k - Cardinality({d \in supprimees : d < k}) :
        k \in positions \ supprimees}

\* modifier_ecriture (POST) from the first flush to the commit.  The flush
\* inserts the new lines and deletes the loaded lines by primary key; a
\* DELETE of a row that another request has deleted since matches nothing
\* and raises nothing.  The balance is read on the loaded lines.
modifier_ecriture_enregistrer(r, lignes) ==
    /\ requetes[r].etape = "charge"
    /\ LET q == requetes[r]
           restantes == SansPositions(pieces[q.id].lignes, q.presentes)
       IN  /\ IF AvecImputations(q.lignes_chargees)
              THEN /\ last' = Resultat("modifier", q.id, "erreur", 0)
                   /\ audit' = {}
                   /\ UNCHANGED pieces
                   /\ requetes' = [requetes EXCEPT ![r] = Libre]
              ELSE IF ~est_equilibree(q.lignes_chargees)
              THEN /\ last' = Resultat("modifier", q.id, "desequilibre", 0)
                   /\ audit' = {}
                   /\ UNCHANGED pieces
                   /\ requetes' = [requetes EXCEPT ![r] = Libre]
              ELSE /\ Len(restantes) + Len(lignes) <= MaxLignes
                   /\ pieces' = [pieces EXCEPT
                          ![q.id].date_piece = q.new_date,
                          ![q.id].exercice_id = q.new_exercice_id,
                          ![q.id].lignes =
                              restantes \o LignesModifiees(lignes)]
                   /\ requetes' = [s \in Requetes |->
                          IF s = r THEN Libre
                          ELSE IF /\ requetes[s].etape = "charge"
                                  /\ requetes[s].id = q.id
                          THEN [requetes[s] EXCEPT !.presentes =
                                   Decalees(@, q.presentes)]
                          ELSE requetes[s]]
                   /\ audit' =
                          {[table |-> "pieces", record_id |-> q.id,
                            action |-> "UPDATE", valeur |-> q.new_date]}
                   /\ last' = Resultat("modifier", q.id, "ok", 0)
    /\ UNCHANGED <<exercices, modeles, avances, immobilisations, financements, gestion>>

NextConcurrence ==
    \/ \E l \in LignesModele :
          nouveau_modele_ecriture(l) /\ UNCHANGED hors_ecritures
    \/ \E r \in Requetes, h \in HandlersCreation, id \in 1..MaxPieces :
          lire_dernier(r, h, id)
    \/ \E r \in Requetes, d \in Annees, l \in LignesConcurrentes :
          inserer(r, d, l)
    \/ \E r \in Requetes, id \in DOMAIN pieces, d \in Annees,
          e \in DOMAIN exercices :
          modifier_ecriture_charger(r, id, d, e)
    \/ \E r \in Requetes, l \in LignesConcurrentes :
          modifier_ecriture_enregistrer(r, l)

SpecConcurrence == Init /\ [][NextConcurrence]_vars

\* An edit in two steps next to the validations: valider_ecriture and
\* invalider_ecriture read, check and commit in one step each, between the
\* steps of the edits in flight.
NextValidation ==
    \/ \E e \in DOMAIN exercices, d \in Annees, l \in LignesConcurrentes :
          nouvelle_ecriture_expert(e, d, l) /\ UNCHANGED hors_ecritures
    \/ \E r \in Requetes, id \in DOMAIN pieces, d \in Annees,
          e \in DOMAIN exercices :
          modifier_ecriture_charger(r, id, d, e)
    \/ \E r \in Requetes, l \in LignesConcurrentes :
          modifier_ecriture_enregistrer(r, l)
    \/ \E id \in DOMAIN pieces :
          valider_ecriture(id) /\ UNCHANGED hors_ecritures
    \/ \E id \in DOMAIN pieces :
          invalider_ecriture(id) /\ UNCHANGED hors_ecritures

SpecValidation == Init /\ [][NextValidation]_vars

\* ---- budget lines and per-year budgets ----

MaxLignesBudget == 2
MaxMontantBudget == 2

\* The tables of the management handlers: they leave the books alone.
comptabilite == <<exercices, pieces, modeles, avances, immobilisations, financements, requetes>>

\* The projects; each runs over the years of Annees (projet.date_debut and
\* projet.date_fin), the years of the per-year form.
Projets == {1, 2}

\* The amounts of the budget forms, in hundredths; a field of the
\* per-year form may be empty (0) or negative.
FormulairesAnnuels == [Annees -> {0 - 100} \cup {100 * k : k \in 0..MaxMontantBudget}]

RECURSIVE SommeBudgets(_)
SommeBudgets(budgets) ==
    IF budgets = <<>> THEN 0
    ELSE Head(budgets).montant_prevu + SommeBudgets(Tail(budgets))

\* LigneBudget.get_total_prevu
get_total_prevu(ligne) ==
    IF ligne.budgets_annuels # <<>> THEN SommeBudgets(ligne.budgets_annuels)
    ELSE ligne.montant_prevu

\* ajouter_ligne_budget (POST)
ajouter_ligne_budget(id, quantite, cout_unitaire) ==
    /\ id \in Projets
    /\ Len(lignes_budget) < MaxLignesBudget
    /\ lignes_budget' = Append(lignes_budget,
           [projet_id |-> id, montant_prevu |-> quantite * cout_unitaire,
            budgets_annuels |-> <<>>])
    /\ audit' = {}
    /\ last' = Resultat("ajouter_ligne_budget", Len(lignes_budget) + 1, "ok", 0)
    /\ UNCHANGED <<comptabilite, notes_frais, demandes_achat, bons_commande, reconciliations>>

\* gerer_budget_annuel: the loop over the years of the project from
\* annee on, which keeps the amounts above 0
RECURSIVE BudgetsSaisis(_, _)
BudgetsSaisis(annee, formulaire) ==
    IF annee > MaxAnnee THEN <<>>
    ELSE (IF formulaire[annee] > 0
          THEN <<[annee |-> annee, montant_prevu |-> formulaire[annee]]>>
          ELSE <<>>) \o BudgetsSaisis(annee + 1, formulaire)

gerer_budget_annuel_sans_suppression(projet_id, ligne_id, formulaire) ==
    /\ projet_id \in Projets
    /\ ligne_id \in DOMAIN lignes_budget
    /\ lignes_budget' = [lignes_budget EXCEPT ![ligne_id].budgets_annuels = @ \o BudgetsSaisis(1, formulaire)]
    /\ audit' = {}
    /\ last' = Resultat("gerer_budget_annuel", ligne_id, "ok", 0)
    /\ UNCHANGED <<comptabilite, notes_frais, demandes_achat, bons_commande, reconciliations>>

\* gerer_budget_annuel (POST)
gerer_budget_annuel(projet_id, ligne_id, formulaire) ==
    /\ projet_id \in Projets
    /\ ligne_id \in DOMAIN lignes_budget
    /\ IF lignes_budget[ligne_id].projet_id # projet_id
       THEN /\ last' = Resultat("gerer_budget_annuel", ligne_id, "invalide", 0)
            /\ UNCHANGED lignes_budget
       ELSE LET budgets == BudgetsSaisis(1, formulaire)
            IN /\ lignes_budget' = [lignes_budget EXCEPT
                      ![ligne_id].budgets_annuels = budgets,
                      ![ligne_id].montant_prevu = SommeBudgets(budgets)]
               /\ last' = Resultat("gerer_budget_annuel", ligne_id, "ok", 0)
    /\ audit' = {}
    /\ UNCHANGED <<comptabilite, notes_frais, demandes_achat, bons_commande, reconciliations>>

NextBudgets ==
    \/ \E id \in Projets, quantite \in {1, 2}, cout_unitaire \in {100 * k : k \in 0..MaxMontantBudget} :
           ajouter_ligne_budget(id, quantite, cout_unitaire)
    \/ \E projet_id \in Projets, ligne_id \in 1..MaxLignesBudget, formulaire \in FormulairesAnnuels :
           gerer_budget_annuel(projet_id, ligne_id, formulaire)

SpecBudgets == Init /\ [][NextBudgets]_vars

\* ---- expense notes ----

MaxNotes == 2

\* The users: a comptable, a directeur and an auditeur (Utilisateur.role)
Utilisateurs == {1, 2, 3}
role(utilisateur) ==
    IF utilisateur = 1 THEN "comptable"
    ELSE IF utilisateur = 2 THEN "directeur" ELSE "auditeur"

est_modifiable_toujours(note) == TRUE

\* NoteFrais.est_modifiable, DemandeAchat.est_modifiable
est_modifiable(note) == note.statut \in {"brouillon", "rejete"}

\* NoteFrais.peut_soumettre
peut_soumettre_note(note) == note.statut \in {"brouillon", "rejete"}

\* NoteFrais.peut_approuver, DemandeAchat.peut_approuver
peut_approuver(note) == note.statut = "soumis"

\* What a management handler does besides its write to its own table: it
\* leaves the books alone, and log_audit runs after the commit, so that its
\* row is never committed.
Reponse(op, id, msg) ==
    /\ audit' = {}
    /\ last' = Resultat(op, id, msg, 0)
    /\ UNCHANGED comptabilite

\* nouvelle_note_frais (POST)
nouvelle_note_frais(utilisateur, montant) ==
    /\ Len(notes_frais) < MaxNotes
    /\ UNCHANGED <<lignes_budget, demandes_achat, bons_commande, reconciliations>>
    /\ notes_frais' = Append(notes_frais,
           [employe_id |-> utilisateur, montant |-> montant, statut |-> "brouillon",
            motif_rejet |-> "", validateur_id |-> 0])
    /\ Reponse("nouvelle_note_frais", Len(notes_frais) + 1, "ok")

\* modifier_note_frais (POST)
modifier_note_frais(utilisateur, id, montant) ==
    /\ id \in DOMAIN notes_frais
    /\ UNCHANGED <<lignes_budget, demandes_achat, bons_commande, reconciliations>>
    /\ LET note == notes_frais[id]
       IN IF note.employe_id # utilisateur /\ role(utilisateur) # "directeur"
          THEN /\ UNCHANGED notes_frais
               /\ Reponse("modifier_note_frais", id, "droit")
          ELSE IF ~est_modifiable(note)
          THEN /\ UNCHANGED notes_frais
               /\ Reponse("modifier_note_frais", id, "non_modifiable")
          ELSE /\ notes_frais' = [notes_frais EXCEPT ![id] =
                      IF note.statut = "rejete"
                      THEN [note EXCEPT !.montant = montant, !.statut = "brouillon",
                                        !.motif_rejet = ""]
                      ELSE [note EXCEPT !.montant = montant]]
               /\ Reponse("modifier_note_frais", id, "ok")

\* soumettre_note_frais
soumettre_note_frais(utilisateur, id) ==
    /\ id \in DOMAIN notes_frais
    /\ UNCHANGED <<lignes_budget, demandes_achat, bons_commande, reconciliations>>
    /\ IF notes_frais[id].employe_id # utilisateur
       THEN /\ UNCHANGED notes_frais
            /\ Reponse("soumettre_note_frais", id, "droit")
       ELSE IF ~peut_soumettre_note(notes_frais[id])
       THEN /\ UNCHANGED notes_frais
            /\ Reponse("soumettre_note_frais", id, "statut")
       ELSE /\ notes_frais' = [notes_frais EXCEPT ![id].statut = "soumis"]
            /\ Reponse("soumettre_note_frais", id, "ok")

\* approuver_note_frais
approuver_note_frais(utilisateur, id) ==
    /\ id \in DOMAIN notes_frais
    /\ UNCHANGED <<lignes_budget, demandes_achat, bons_commande, reconciliations>>
    /\ IF role(utilisateur) \notin {"comptable", "directeur"}
       THEN /\ UNCHANGED notes_frais
            /\ Reponse("approuver_note_frais", id, "role")
       ELSE IF ~peut_approuver(notes_frais[id])
       THEN /\ UNCHANGED notes_frais
            /\ Reponse("approuver_note_frais", id, "statut")
       ELSE /\ notes_frais' = [notes_frais EXCEPT ![id].statut = "approuve",
                                                 ![id].validateur_id = utilisateur]
            /\ Reponse("approuver_note_frais", id, "ok")

\* rejeter_note_frais
rejeter_note_frais(utilisateur, id, motif) ==
    /\ id \in DOMAIN notes_frais
    /\ UNCHANGED <<lignes_budget, demandes_achat, bons_commande, reconciliations>>
    /\ IF role(utilisateur) \notin {"comptable", "directeur"}
       THEN /\ UNCHANGED notes_frais
            /\ Reponse("rejeter_note_frais", id, "role")
       ELSE IF ~peut_approuver(notes_frais[id])
       THEN /\ UNCHANGED notes_frais
            /\ Reponse("rejeter_note_frais", id, "statut")
       ELSE IF motif = ""
       THEN /\ UNCHANGED notes_frais
            /\ Reponse("rejeter_note_frais", id, "motif")
       ELSE /\ notes_frais' = [notes_frais EXCEPT ![id].statut = "rejete",
                                                 ![id].validateur_id = utilisateur,
                                                 ![id].motif_rejet = motif]
            /\ Reponse("rejeter_note_frais", id, "ok")

\* rembourser_note_frais
rembourser_note_frais(utilisateur, id) ==
    /\ id \in DOMAIN notes_frais
    /\ UNCHANGED <<lignes_budget, demandes_achat, bons_commande, reconciliations>>
    /\ IF role(utilisateur) \notin {"comptable", "directeur"}
       THEN /\ UNCHANGED notes_frais
            /\ Reponse("rembourser_note_frais", id, "role")
       ELSE IF notes_frais[id].statut # "approuve"
       THEN /\ UNCHANGED notes_frais
            /\ Reponse("rembourser_note_frais", id, "statut")
       ELSE /\ notes_frais' = [notes_frais EXCEPT ![id].statut = "rembourse"]
            /\ Reponse("rembourser_note_frais", id, "ok")

NextNotesFrais ==
    \/ \E utilisateur \in Utilisateurs, montant \in {100, 200} :
           nouvelle_note_frais(utilisateur, montant)
    \/ \E utilisateur \in Utilisateurs, id \in 1..MaxNotes, montant \in {100, 200} :
           modifier_note_frais(utilisateur, id, montant)
    \/ \E utilisateur \in Utilisateurs, id \in 1..MaxNotes :
           soumettre_note_frais(utilisateur, id)
    \/ \E utilisateur \in Utilisateurs, id \in 1..MaxNotes :
           approuver_note_frais(utilisateur, id)
    \/ \E utilisateur \in Utilisateurs, id \in 1..MaxNotes, motif \in {"", "motif"} :
           rejeter_note_frais(utilisateur, id, motif)
    \/ \E utilisateur \in Utilisateurs, id \in 1..MaxNotes :
           rembourser_note_frais(utilisateur, id)

SpecNotesFrais == Init /\ [][NextNotesFrais]_vars

\* ---- purchase requests and purchase orders ----

MaxDemandes == 1

\* DemandeAchat.SEUIL_APPROBATION_DIRECTEUR, in FCFA
SEUIL_APPROBATION_DIRECTEUR == 500000

\* The lines of the purchase request form: no line, a line without
\* designation, a small line, a line of exactly 500,000.00, a line of
\* 499,999.99, and three lines of 85,754.40, 266,279.30 and 147,966.30, which
\* make exactly 500,000.00.  Prices are in hundredths.
FormulairesAchat ==
    {<<>>,
     <<[designation |-> "", quantite |-> 1, prix_unitaire_estime |-> 100]>>,
     <<[designation |-> "a", quantite |-> 2, prix_unitaire_estime |-> 100]>>,
     <<[designation |-> "a", quantite |-> 1, prix_unitaire_estime |-> 50000000]>>,
     <<[designation |-> "a", quantite |-> 1, prix_unitaire_estime |-> 49999999]>>,
     <<[designation |-> "a", quantite |-> 1, prix_unitaire_estime |-> 8575440],
       [designation |-> "b", quantite |-> 1, prix_unitaire_estime |-> 26627930],
       [designation |-> "c", quantite |-> 1, prix_unitaire_estime |-> 14796630]>>}

\* DemandeAchat.montant_total and the total of generer_bon_commande: the sum
\* of quantite * prix of the lines, in hundredths.  Both are sums of binary
\* floating point numbers; the Numeric(15, 2) column of the purchase order
\* holds the nearest hundredth, which is the exact sum.
RECURSIVE montant_total(_)
montant_total(lignes) ==
    IF lignes = <<>> THEN 0
    ELSE Head(lignes).quantite * Head(lignes).prix_unitaire_estime
             + montant_total(Tail(lignes))

\* The sequences of line totals, among those of the forms above, whose
\* floating point sum (IEEE-754 double, added from 0 in the order of the
\* lines, as Python's sum does) is strictly below their exact sum:
\* 85754.4 + 266279.3 + 147966.3 is 499999.99999999994.  For the other
\* forms the floating point sum is the exact sum.
SommesFlottantesInferieures == {<<8575440, 26627930, 14796630>>}

\* DemandeAchat.peut_soumettre
peut_soumettre(demande) ==
    demande.statut \in {"brouillon", "rejete"} /\ Len(demande.lignes) > 0

\* DemandeAchat.necessite_approbation_directeur: the floating point total
\* compared with the threshold
necessite_approbation_directeur(demande) ==
    LET totaux == [k \in DOMAIN demande.lignes |->
                      demande.lignes[k].quantite * demande.lignes[k].prix_unitaire_estime]
    IN IF totaux \in SommesFlottantesInferieures
       THEN montant_total(demande.lignes) > 100 * SEUIL_APPROBATION_DIRECTEUR
       ELSE montant_total(demande.lignes) >= 100 * SEUIL_APPROBATION_DIRECTEUR

\* nouvelle_demande_achat (POST): the lines whose designation is not blank
nouvelle_demande_achat(utilisateur, formulaire) ==
    /\ Len(demandes_achat) < MaxDemandes
    /\ UNCHANGED <<lignes_budget, notes_frais, bons_commande, reconciliations>>
    /\ demandes_achat' = Append(demandes_achat,
           [demandeur_id |-> utilisateur, statut |-> "brouillon",
            lignes |-> SelectSeq(formulaire, LAMBDA l : l.designation # ""),
            approbateur_id |-> 0, motif_rejet |-> "", bon_commande_id |-> 0])
    /\ Reponse("nouvelle_demande_achat", Len(demandes_achat) + 1, "ok")

\* modifier_demande_achat (POST)
modifier_demande_achat(id, formulaire) ==
    /\ id \in DOMAIN demandes_achat
    /\ UNCHANGED <<lignes_budget, notes_frais, bons_commande, reconciliations>>
    /\ LET demande == demandes_achat[id]
           lignes == SelectSeq(formulaire, LAMBDA l : l.designation # "")
       IN IF ~est_modifiable(demande)
          THEN /\ UNCHANGED demandes_achat
               /\ Reponse("modifier_demande_achat", id, "non_modifiable")
          ELSE /\ demandes_achat' = [demandes_achat EXCEPT ![id] =
                      IF demande.statut = "rejete"
                      THEN [demande EXCEPT !.lignes = lignes, !.statut = "brouillon",
                                           !.motif_rejet = ""]
                      ELSE [demande EXCEPT !.lignes = lignes]]
               /\ Reponse("modifier_demande_achat", id, "ok")

\* soumettre_demande_achat
soumettre_demande_achat(id) ==
    /\ id \in DOMAIN demandes_achat
    /\ UNCHANGED <<lignes_budget, notes_frais, bons_commande, reconciliations>>
    /\ IF ~peut_soumettre(demandes_achat[id])
       THEN /\ UNCHANGED demandes_achat
            /\ Reponse("soumettre_demande_achat", id, "refus")
       ELSE /\ demandes_achat' = [demandes_achat EXCEPT ![id].statut = "soumis"]
            /\ Reponse("soumettre_demande_achat", id, "ok")

\* approuver_demande_achat
approuver_demande_achat(utilisateur, id) ==
    /\ id \in DOMAIN demandes_achat
    /\ UNCHANGED <<lignes_budget, notes_frais, bons_commande, reconciliations>>
    /\ IF role(utilisateur) \notin {"comptable", "directeur"}
       THEN /\ UNCHANGED demandes_achat
            /\ Reponse("approuver_demande_achat", id, "role")
       ELSE IF ~peut_approuver(demandes_achat[id])
       THEN /\ UNCHANGED demandes_achat
            /\ Reponse("approuver_demande_achat", id, "statut")
       ELSE IF /\ necessite_approbation_directeur(demandes_achat[id])
               /\ role(utilisateur) # "directeur"
       THEN /\ UNCHANGED demandes_achat
            /\ Reponse("approuver_demande_achat", id, "seuil")
       ELSE /\ demandes_achat' = [demandes_achat EXCEPT ![id].statut = "approuve",
                                                       ![id].approbateur_id = utilisateur]
            /\ Reponse("approuver_demande_achat", id, "ok")

\* rejeter_demande_achat
rejeter_demande_achat(utilisateur, id, motif) ==
    /\ id \in DOMAIN demandes_achat
    /\ UNCHANGED <<lignes_budget, notes_frais, bons_commande, reconciliations>>
    /\ IF role(utilisateur) \notin {"comptable", "directeur"}
       THEN /\ UNCHANGED demandes_achat
            /\ Reponse("rejeter_demande_achat", id, "role")
       ELSE IF ~peut_approuver(demandes_achat[id])
       THEN /\ UNCHANGED demandes_achat
            /\ Reponse("rejeter_demande_achat", id, "statut")
       ELSE IF motif = ""
       THEN /\ UNCHANGED demandes_achat
            /\ Reponse("rejeter_demande_achat", id, "motif")
       ELSE /\ demandes_achat' = [demandes_achat EXCEPT ![id].statut = "rejete",
                                                       ![id].approbateur_id = utilisateur,
                                                       ![id].motif_rejet = motif]
            /\ Reponse("rejeter_demande_achat", id, "ok")

generer_bon_commande_sans_statut(utilisateur, id, fournisseur_id) ==
    /\ id \in DOMAIN demandes_achat
    /\ Len(bons_commande) <= MaxDemandes
    /\ UNCHANGED <<lignes_budget, notes_frais, reconciliations>>
    /\ bons_commande' = Append(bons_commande,
           [demande_achat_id |-> id, fournisseur_id |-> fournisseur_id, statut |-> "emis",
            lignes |-> [k \in DOMAIN demandes_achat[id].lignes |->
                           [designation |-> demandes_achat[id].lignes[k].designation,
                            quantite |-> demandes_achat[id].lignes[k].quantite,
                            prix_unitaire |-> demandes_achat[id].lignes[k].prix_unitaire_estime]],
            montant_total |-> montant_total(demandes_achat[id].lignes)])
    /\ demandes_achat' = [demandes_achat EXCEPT ![id].statut = "commande",
                                                ![id].bon_commande_id = Len(bons_commande) + 1]
    /\ Reponse("generer_bon_commande", Len(bons_commande) + 1, "ok")

\* generer_bon_commande; fournisseur_id 0 is the empty field
generer_bon_commande(utilisateur, id, fournisseur_id) ==
    /\ id \in DOMAIN demandes_achat
    /\ UNCHANGED <<lignes_budget, notes_frais, reconciliations>>
    /\ IF role(utilisateur) \notin {"comptable", "directeur"}
       THEN /\ UNCHANGED <<demandes_achat, bons_commande>>
            /\ Reponse("generer_bon_commande", id, "role")
       ELSE IF demandes_achat[id].statut # "approuve"
       THEN /\ UNCHANGED <<demandes_achat, bons_commande>>
            /\ Reponse("generer_bon_commande", id, "statut")
       ELSE IF fournisseur_id = 0
       THEN /\ UNCHANGED <<demandes_achat, bons_commande>>
            /\ Reponse("generer_bon_commande", id, "fournisseur")
       ELSE LET demande == demandes_achat[id]
                bon == [demande_achat_id |-> id, fournisseur_id |-> fournisseur_id,
                        statut |-> "emis",
                        lignes |-> [k \in DOMAIN demande.lignes |->
                            [designation |-> demande.lignes[k].designation,
                             quantite |-> demande.lignes[k].quantite,
                             prix_unitaire |-> demande.lignes[k].prix_unitaire_estime]],
                        montant_total |-> montant_total(demande.lignes)]
            IN /\ bons_commande' = Append(bons_commande, bon)
               /\ demandes_achat' = [demandes_achat EXCEPT
                      ![id].statut = "commande",
                      ![id].bon_commande_id = Len(bons_commande) + 1]
               /\ Reponse("generer_bon_commande", Len(bons_commande) + 1, "ok")

\* livrer_bon_commande
livrer_bon_commande(utilisateur, id, statut_livraison) ==
    /\ id \in DOMAIN bons_commande
    /\ UNCHANGED <<lignes_budget, notes_frais, demandes_achat, reconciliations>>
    /\ IF role(utilisateur) \notin {"comptable", "directeur"}
       THEN /\ UNCHANGED bons_commande
            /\ Reponse("livrer_bon_commande", id, "role")
       ELSE IF statut_livraison \notin {"livre_partiel", "livre"}
       THEN /\ UNCHANGED bons_commande
            /\ Reponse("livrer_bon_commande", id, "statut")
       ELSE /\ bons_commande' = [bons_commande EXCEPT ![id].statut = statut_livraison]
            /\ Reponse("livrer_bon_commande", id, "ok")

NextAchats ==
    \/ \E utilisateur \in Utilisateurs, formulaire \in FormulairesAchat :
           nouvelle_demande_achat(utilisateur, formulaire)
    \/ \E id \in 1..MaxDemandes, formulaire \in FormulairesAchat :
           modifier_demande_achat(id, formulaire)
    \/ \E id \in 1..MaxDemandes : soumettre_demande_achat(id)
    \/ \E utilisateur \in Utilisateurs, id \in 1..MaxDemandes :
           approuver_demande_achat(utilisateur, id)
    \/ \E utilisateur \in Utilisateurs, id \in 1..MaxDemandes, motif \in {"", "motif"} :
           rejeter_demande_achat(utilisateur, id, motif)
    \/ \E utilisateur \in Utilisateurs, id \in 1..MaxDemandes, fournisseur_id \in {0, 1} :
           generer_bon_commande(utilisateur, id, fournisseur_id)
    \/ \E utilisateur \in Utilisateurs, id \in 1..MaxDemandes, statut_livraison \in {"livre_partiel", "livre", "annule"} :
           livrer_bon_commande(utilisateur, id, statut_livraison)

SpecAchats == Init /\ [][NextAchats]_vars

\* ---- bank reconciliations ----

MaxReconciliations == 1

\* The sum of debit - credit over a set of entry lines, each named by the
\* position of its entry and its position in the entry: the SQL sums of
\* nouvelle_reconciliation and total_pointe of
\* pointer_lignes_reconciliation; the Numeric(15, 2) columns hold the exact
\* sum.
RECURSIVE solde_des_lignes(_)
solde_des_lignes(positions) ==
    IF positions = {} THEN 0
    ELSE LET p == CHOOSE q \in positions : TRUE
         IN pieces[p[1]].lignes[p[2]].debit - pieces[p[1]].lignes[p[2]].credit
                + solde_des_lignes(positions \ {p})

\* nouvelle_reconciliation (POST): one unticked line per entry line of the
\* account in the period
nouvelle_reconciliation(utilisateur, compte_id, periode_debut, periode_fin, solde_releve) ==
    /\ Len(reconciliations) < MaxReconciliations
    /\ UNCHANGED <<comptabilite, lignes_budget, notes_frais, demandes_achat, bons_commande>>
    /\ IF role(utilisateur) \notin {"comptable", "directeur"}
       THEN /\ UNCHANGED reconciliations
            /\ audit' = {}
            /\ last' = Resultat("nouvelle_reconciliation", 0, "role", 0)
       ELSE LET du_compte == {p \in (DOMAIN pieces) \X (1..MaxLignes) :
                                 /\ p[2] \in DOMAIN pieces[p[1]].lignes
                                 /\ pieces[p[1]].lignes[p[2]].compte_id = compte_id}
                solde_comptable == solde_des_lignes(
                    {p \in du_compte : pieces[p[1]].date_piece <= periode_fin})
                periode == {p \in du_compte : /\ pieces[p[1]].date_piece >= periode_debut
                                              /\ pieces[p[1]].date_piece <= periode_fin}
            IN /\ reconciliations' = Append(reconciliations,
                      [compte_id |-> compte_id, solde_releve |-> solde_releve,
                       solde_comptable |-> solde_comptable,
                       ecart |-> solde_releve - solde_comptable,
                       statut |-> "en_cours",
                       lignes |-> [p \in periode |-> FALSE]])
               /\ audit' = {[table |-> "reconciliations_bancaires",
                             record_id |-> Len(reconciliations) + 1,
                             action |-> "CREATE", valeur |-> compte_id]}
               /\ last' = Resultat("nouvelle_reconciliation", Len(reconciliations) + 1, "ok", 0)

pointer_lignes_reconciliation_validee(utilisateur, id, lignes_ids) ==
    /\ id \in DOMAIN reconciliations
    /\ reconciliations' = [reconciliations EXCEPT
           ![id].lignes = [p \in DOMAIN @ |-> p \in lignes_ids],
           ![id].ecart = reconciliations[id].solde_releve
                             - solde_des_lignes(DOMAIN reconciliations[id].lignes \cap lignes_ids)]
    /\ Reponse("pointer_lignes_reconciliation", id, "ok")
    /\ UNCHANGED <<lignes_budget, notes_frais, demandes_achat, bons_commande>>

\* pointer_lignes_reconciliation: the lines named by lignes[] are ticked,
\* the others unticked, and the gap is computed again
pointer_lignes_reconciliation(utilisateur, id, lignes_ids) ==
    /\ id \in DOMAIN reconciliations
    /\ UNCHANGED <<lignes_budget, notes_frais, demandes_achat, bons_commande>>
    /\ IF role(utilisateur) \notin {"comptable", "directeur"}
       THEN /\ UNCHANGED reconciliations
            /\ Reponse("pointer_lignes_reconciliation", id, "role")
       ELSE IF reconciliations[id].statut = "validee"
       THEN /\ UNCHANGED reconciliations
            /\ Reponse("pointer_lignes_reconciliation", id, "validee")
       ELSE /\ reconciliations' = [reconciliations EXCEPT
                   ![id].lignes = [p \in DOMAIN @ |-> p \in lignes_ids],
                   ![id].ecart = reconciliations[id].solde_releve
                       - solde_des_lignes(DOMAIN reconciliations[id].lignes \cap lignes_ids)]
            /\ Reponse("pointer_lignes_reconciliation", id, "ok")

\* valider_reconciliation
valider_reconciliation(utilisateur, id) ==
    /\ id \in DOMAIN reconciliations
    /\ UNCHANGED <<comptabilite, lignes_budget, notes_frais, demandes_achat, bons_commande>>
    /\ IF role(utilisateur) # "directeur"
       THEN /\ UNCHANGED reconciliations
            /\ audit' = {}
            /\ last' = Resultat("valider_reconciliation", id, "role", 0)
       ELSE IF reconciliations[id].statut = "validee"
       THEN /\ UNCHANGED reconciliations
            /\ audit' = {}
            /\ last' = Resultat("valider_reconciliation", id, "deja_validee", 0)
       ELSE /\ reconciliations' = [reconciliations EXCEPT ![id].statut = "validee"]
            /\ audit' = {[table |-> "reconciliations_bancaires", record_id |-> id,
                          action |-> "VALIDATE", valeur |-> 1]}
            /\ last' = Resultat("valider_reconciliation", id, "ok", 0)

NextReconciliations ==
    \/ \E montant \in 1..MaxMontant, d \in Annees :
          /\ nouvelle_ecriture_simplifiee("depense", montant, d, <<>>, SaisieDepense)
          /\ UNCHANGED hors_ecritures
    \/ \E utilisateur \in Utilisateurs, periode_debut \in Annees, periode_fin \in Annees, solde_releve \in {0, 0 - 1} :
          nouvelle_reconciliation(utilisateur, 521, periode_debut, periode_fin, solde_releve)
    \/ \E utilisateur \in Utilisateurs, id \in 1..MaxReconciliations, lignes_ids \in SUBSET ((1..MaxPieces) \X {2}) :
          pointer_lignes_reconciliation(utilisateur, id, lignes_ids)
    \/ \E utilisateur \in Utilisateurs, id \in 1..MaxReconciliations :
          valider_reconciliation(utilisateur, id)

SpecReconciliations == Init /\ [][NextReconciliations]_vars

\* ---- properties ----

\* |sum(debit) - sum(credit)| < 0.01, amounts in whole hundredths
Ecart(lignes) == Abs(total_debit(lignes) - total_credit(lignes))

ExerciceDe(i) == exercices[pieces[i].exercice_id]

\* C1: every persisted entry satisfies |sum(debit) - sum(credit)| < 0.01.
C1_BalanceInvariant ==
    \A i \in DOMAIN pieces : Ecart(pieces[i].lignes) < 1

\* C2: no validate, invalidate or bulk-validate request changes an entry of
\* a closed fiscal year.
C2_ClosedYearValidation ==
    [][last'.op \in {"valider", "invalider", "valider_lot"} =>
          \A i \in DOMAIN pieces :
              ExerciceDe(i).cloture => pieces'[i] = pieces[i]]_vars

\* C3: an edit of an entry of a closed fiscal year fails, validated or not,
\* and changes no entry (header or lines); an edit that succeeds leaves the
\* entry in a target fiscal year that is not closed, and an edit that is
\* rejected changes no entry, so an edit targeting a closed year is rejected
\* with no change.
C3_EditClosedYear ==
    [][last'.op = "modifier" =>
          /\ ExerciceDe(last'.id).cloture
                => last'.msg # "ok" /\ pieces' = pieces
          /\ last'.msg = "ok"
                => ~exercices[pieces'[last'.id].exercice_id].cloture
          /\ last'.msg # "ok" => pieces' = pieces]_vars

\* C3 witness: an edit of an unvalidated entry of a closed year was refused.
C3_Witness ==
    /\ last.op = "modifier"
    /\ last.msg = "exercice_cloture"
    /\ ~pieces[last.id].valide
    /\ ExerciceDe(last.id).cloture

\* C4: the fiscal year of a newly persisted entry is not closed.
C4_NoEntryInClosedYear ==
    [][\A i \in DOMAIN pieces' :
          i \notin DOMAIN pieces =>
              ~exercices'[pieces'[i].exercice_id].cloture]_vars

\* C5: an edit of a validated entry fails and changes no entry; in
\* particular right after a successful validation of that entry.
C5_EditValidated ==
    [][last'.op = "modifier" =>
          /\ pieces[last'.id].valide
                => last'.msg # "ok" /\ pieces' = pieces
          /\ (last.op = "valider" /\ last.msg = "ok" /\ last'.id = last.id)
                => last'.msg # "ok" /\ pieces' = pieces]_vars

\* C5 witness: an edit of a validated entry was refused.
C5_Witness ==
    /\ last.op = "modifier"
    /\ last.msg = "valide"
    /\ pieces[last.id].valide

\* C6: an expert create whose lines are unbalanced leaves the entries as
\* they were.
C6_UnbalancedCreateFails ==
    [][last'.op = "expert" =>
          \A e \in DOMAIN exercices, d \in Annees, l \in LignesSaisies :
             (nouvelle_ecriture_expert(e, d, l) /\ ~(Ecart(l) < 1))
             => pieces' = pieces]_vars

\* C7: a closed fiscal year stays closed in every later state, and closing
\* a closed year changes nothing.
C7_ClosingOneWay ==
    [][/\ \A e \in DOMAIN exercices :
             exercices[e].cloture =>
                 e \in DOMAIN exercices' /\ exercices'[e].cloture
       /\ (last'.op = "cloturer" /\ exercices[last'.id].cloture)
             => exercices' = exercices /\ pieces' = pieces /\ audit' = {}]_vars

\* C7 witness: a request to close a closed year was answered.
C7_Witness ==
    /\ last.op = "cloturer"
    /\ last.msg = "deja_cloture"
    /\ exercices[last.id].cloture

\* C8: closing an open year that has n > 0 unvalidated entries aborts
\* without the force flag and leaves it open; with the flag the year is
\* closed and n is logged; a year closed without the flag had n = 0.
C8_ClosingUnvalidated ==
    [][last'.op = "cloturer" =>
       \A id \in DOMAIN exercices, force \in BOOLEAN :
          (cloturer_exercice(id, force) /\ ~exercices[id].cloture) =>
          LET n == Cardinality({i \in DOMAIN pieces :
                      pieces[i].exercice_id = id /\ ~pieces[i].valide})
          IN  /\ (n > 0 /\ ~force) =>
                    exercices' = exercices /\ last'.msg = "non_validees"
              /\ force =>
                    /\ exercices'[id].cloture
                    /\ [table |-> "exercices", record_id |-> id,
                        action |-> "CLOTURE", valeur |-> n] \in audit'
              /\ (~force /\ exercices'[id].cloture) => n = 0]_vars

\* C8 witness: a year was closed by force and the log counts the
\* unvalidated entries that were ignored.
C8_Witness ==
    /\ last.op = "cloturer"
    /\ last.msg = "ok"
    /\ exercices[last.id].cloture
    /\ \E r \in audit : r.action = "CLOTURE" /\ r.valeur > 0
    /\ \E i \in DOMAIN pieces :
          pieces[i].exercice_id = last.id /\ ~pieces[i].valide

\* C9: the date of every persisted entry lies within its fiscal year.
C9_DateInFiscalYear ==
    \A i \in DOMAIN pieces :
        /\ ExerciceDe(i).date_debut <= pieces[i].date_piece
        /\ pieces[i].date_piece <= ExerciceDe(i).date_fin

\* C10: every validated entry satisfies |sum(debit) - sum(credit)| < 0.01.
C10_ValidatedBalanced ==
    \A i \in DOMAIN pieces :
        pieces[i].valide => Ecart(pieces[i].lignes) < 1

\* C11: every persisted line has debit >= 0 and credit >= 0.
C11_LignesNonNegatives ==
    \A i \in DOMAIN pieces : \A k \in DOMAIN pieces[i].lignes :
        pieces[i].lignes[k].debit >= 0 /\ pieces[i].lignes[k].credit >= 0

\* C12: once an advance is settled or deducted, no justify or deduct call
\* changes its status, its justified amount or its reimbursed amount (no
\* step at all changes a settled or deducted advance).
C12_AvanceTerminale ==
    [][\A id \in DOMAIN avances :
          avances[id].statut \in {"soldee", "deduite"}
              => id \in DOMAIN avances' /\ avances'[id] = avances[id]]_vars

\* C12 witness: a justify or deduct call was refused on a settled or
\* deducted advance.
C12_Witness ==
    /\ last.op \in {"justifier", "deduire"}
    /\ last.msg = "refus"
    /\ avances[last.id].statut \in {"soldee", "deduite"}

\* C13: a justify call on a pending or justified advance stores the supplied
\* justified and reimbursed amounts and sets the status to settled iff
\* amount - justified - reimbursed <= 0, otherwise to justified.
C13_JustifierStatut ==
    [][last'.op = "justifier" =>
          \A mj \in MontantsJustifies, mr \in MontantsRembourses :
             (/\ justifier_avance(last'.id, mj, mr)
              /\ avances[last'.id].statut \in {"en_attente", "justifiee"})
             => LET a == avances'[last'.id] IN
                /\ a.montant_justifie = mj
                /\ a.montant_rembourse = mr
                /\ a.statut = IF a.montant - mj - mr <= 0
                              THEN "soldee" ELSE "justifiee"]_vars

\* C14: a new advance starts pending; every change of an advance's status
\* is one of pending->justified, pending->settled, justified->justified,
\* justified->settled, pending->deducted, justified->deducted; and a deduct
\* call succeeds exactly when the status is pending or justified.
C14_TransitionsAvance ==
    [][/\ \A id \in DOMAIN avances' :
             IF id \in DOMAIN avances
             THEN avances'[id] # avances[id] =>
                    /\ avances[id].statut \in {"en_attente", "justifiee"}
                    /\ avances'[id].statut \in
                           {"justifiee", "soldee", "deduite"}
             ELSE avances'[id].statut = "en_attente"
       /\ last'.op = "deduire" =>
             (last'.msg = "ok" <=>
                 avances[last'.id].statut \in {"en_attente", "justifiee"})
       /\ (last'.op = "deduire" /\ last'.msg = "ok") =>
             avances'[last'.id].statut = "deduite"]_vars

\* C14 witness: a partly justified advance was deducted.
C14_Witness ==
    /\ last.op = "deduire"
    /\ last.msg = "ok"
    /\ avances[last.id].statut = "deduite"
    /\ avances[last.id].montant_justifie > 0

\* C15: an asset never has two depreciation lines for one fiscal year; a
\* computation that succeeds adds a line for a fiscal year the asset had no
\* line for, and a computation that fails (as the second one for the same
\* asset and year does) leaves the lines, hence the cumulative depreciation,
\* unchanged.
C15_AmortissementUnique ==
    [][/\ \A id \in DOMAIN immobilisations' :
             LET l == immobilisations'[id].lignes_amortissement IN
             \A j, k \in DOMAIN l :
                 l[j].exercice_id = l[k].exercice_id => j = k
       /\ last'.op = "calculer" =>
             LET avant == immobilisations[last'.id].lignes_amortissement
                 apres == immobilisations'[last'.id].lignes_amortissement
             IN  IF last'.msg = "ok"
                 THEN /\ Len(apres) = Len(avant) + 1
                      /\ SubSeq(apres, 1, Len(avant)) = avant
                      /\ \A k \in DOMAIN avant :
                            avant[k].exercice_id
                                # apres[Len(apres)].exercice_id
                 ELSE immobilisations' = immobilisations]_vars

\* C15 witness: a second computation for the same asset and fiscal year was
\* refused.
C15_Witness ==
    /\ last.op = "calculer"
    /\ last.msg = "deja_calcule"
    /\ immobilisations[last.id].lignes_amortissement # <<>>

\* C16: a disposal of an active asset sets its status to cede or rebut; an
\* asset that is not active never becomes active again and keeps its
\* disposal date, its sale value and its depreciation lines, whatever
\* disposal or computation is requested.
C16_SortieTerminale ==
    [][/\ (last'.op = "sortie"
              /\ immobilisations[last'.id].statut = "actif")
          => immobilisations'[last'.id].statut \in {"cede", "rebut"}
       /\ \A id \in DOMAIN immobilisations :
             immobilisations[id].statut # "actif"
                 => immobilisations'[id] = immobilisations[id]]_vars

\* C17: a computation writes the dotation value / life, multiplied by
\* (13 - month) / 12 in the year of the acquisition, to the nearest
\* hundredth; cumul = the asset's prior dotations + dotation; and
\* valeur_nette = value - cumul.
C17_Dotation ==
    [][(last'.op = "calculer" /\ last'.msg = "ok") =>
          LET a == immobilisations[last'.id]
              apres == immobilisations'[last'.id].lignes_amortissement
              l == apres[Len(apres)]
          IN  /\ l.annee = exercices[l.exercice_id].annee
              /\ IF a.annee_acquisition = l.annee
                 THEN 2 * Abs(l.dotation * 12 * a.duree_amortissement
                              - a.valeur_acquisition
                                  * (13 - a.mois_acquisition))
                          < 12 * a.duree_amortissement
                 ELSE 2 * Abs(l.dotation * a.duree_amortissement
                              - a.valeur_acquisition)
                          < a.duree_amortissement
              /\ l.cumul = SumDotations(a.lignes_amortissement) + l.dotation
              /\ l.valeur_nette = a.valeur_acquisition - l.cumul]_vars

\* C17 witness: an asset acquired in July has a pro rata line for the year
\* of its acquisition that follows a line of another year.
C17_Witness ==
    /\ last.op = "calculer"
    /\ last.msg = "ok"
    /\ immobilisations[last.id].mois_acquisition = 7
    /\ LET l == immobilisations[last.id].lignes_amortissement IN
       /\ Len(l) = 2
       /\ l[2].annee = immobilisations[last.id].annee_acquisition

\* The tranches of a financing
TranchesDe(f) == {f.tranches[k] : k \in DOMAIN f.tranches}

\* C18: a tranche with received > 0, and a tranche whose status records a
\* reception, is still there after every step, with its financing; a deletion of a financing one of whose tranches has
\* received > 0, and a deletion of a tranche with received > 0, is refused
\* and changes no financing and no tranche.
C18_SuppressionGardee ==
    [][/\ \A id \in DOMAIN financements :
          \A t \in TranchesDe(financements[id]) :
             (t.montant_recu > 0 \/ t.statut \in {"recu", "partiel"}) =>
                /\ ~financements'[id].supprime
                /\ \E u \in TranchesDe(financements'[id]) :
                      u.numero = t.numero
       /\ (/\ last'.op = "supprimer_financement"
           /\ \E t \in TranchesDe(financements[last'.id]) :
                 t.montant_recu > 0)
          => last'.msg = "refus" /\ financements' = financements
       /\ (/\ last'.op = "supprimer_tranche"
           /\ \E t \in TranchesDe(financements[last'.id]) :
                 t.numero = last'.n /\ t.montant_recu > 0)
          => last'.msg = "refus" /\ financements' = financements]_vars

\* C18 witness: the deletion of a financing with a received tranche was
\* refused.
C18_Witness ==
    /\ last.op = "supprimer_financement"
    /\ last.msg = "refus"
    /\ \E t \in TranchesDe(financements[last.id]) : t.montant_recu > 0

\* C19: a reception stores the supplied amount, or the planned amount when
\* none is supplied, and sets the status to recu iff received >= planned,
\* otherwise to partiel; a tranche is attendu with received = 0 until a
\* reception names it.
C19_Reception ==
    [][/\ last'.op = "recevoir" =>
          \A k \in 1..MaxTranches, fourni \in BOOLEAN, m \in MontantsRecus :
             recevoir_tranche(last'.id, k, fourni, m) =>
                LET t == financements[last'.id].tranches[k]
                    u == financements'[last'.id].tranches[k]
                IN  /\ u.montant_recu = IF fourni THEN m ELSE t.montant_prevu
                    /\ u.statut = "recu" <=> u.montant_recu >= t.montant_prevu
                    /\ u.statut = "partiel"
                           <=> u.montant_recu < t.montant_prevu
       /\ \A id \in DOMAIN financements' :
          \A u \in TranchesDe(financements'[id]) :
             (u.statut # "attendu" \/ u.montant_recu # 0) =>
                \/ /\ last'.op = "recevoir"
                   /\ last'.id = id
                   /\ last'.n = u.numero
                \/ /\ id \in DOMAIN financements
                   /\ u \in TranchesDe(financements[id])]_vars

\* C19 witness: one tranche of a financing was partly received and another
\* one is still expected.
C19_Witness ==
    /\ last.op = "recevoir"
    /\ \E t, u \in TranchesDe(financements[last.id]) :
          /\ t.numero = last.n
          /\ t.statut = "partiel"
          /\ t.montant_recu > 0
          /\ u.statut = "attendu"
          /\ u.montant_recu = 0

\* C20: an added tranche is attendu and its number is one more than the
\* largest number among the financing's tranches before the call (1 when
\* there were none); the numbers of the tranches of a financing are
\* pairwise distinct after every step.
C20_NumerosTranches ==
    [][/\ last'.op = "ajouter_tranche" =>
          LET avant == financements[last'.id].tranches
              apres == financements'[last'.id].tranches
              t == apres[Len(apres)]
          IN  /\ Len(apres) = Len(avant) + 1
              /\ SubSeq(apres, 1, Len(avant)) = avant
              /\ t.statut = "attendu"
              /\ t.montant_recu = 0
              /\ \A k \in DOMAIN avant : avant[k].numero < t.numero
              /\ \/ t.numero = 1 /\ avant = <<>>
                 \/ \E k \in DOMAIN avant : avant[k].numero + 1 = t.numero
       /\ \A id \in DOMAIN financements' :
             LET tr == financements'[id].tranches IN
             \A j, k \in DOMAIN tr : tr[j].numero = tr[k].numero => j = k]_vars

\* C20 witness: a tranche was added after a deletion left a gap in the
\* numbers.
C20_Witness ==
    /\ last.op = "ajouter_tranche"
    /\ LET tr == financements[last.id].tranches IN
       /\ Len(tr) = 2
       /\ tr[1].numero = 2
       /\ tr[2].numero = 3

\* C21: a bulk validation of the list ids sets valide on exactly the
\* entries of the list that were unvalidated and satisfied
\* |sum(debit) - sum(credit)| < 0.01, reports their count, and leaves every
\* other entry, and the lines of every entry, unchanged.
C21_ValidationEnLot ==
    [][last'.op = "valider_lot" =>
          \A ids \in SUBSET (1..MaxPieces) :
             valider_lot_ecritures(ids) =>
               LET attendues ==
                       {i \in ids \cap DOMAIN pieces :
                           ~pieces[i].valide /\ Ecart(pieces[i].lignes) < 1}
               IN  /\ DOMAIN pieces' = DOMAIN pieces
                   /\ \A i \in DOMAIN pieces :
                         pieces'[i] = IF i \in attendues
                                      THEN [pieces[i] EXCEPT !.valide = TRUE]
                                      ELSE pieces[i]
                   /\ last'.n = Cardinality(attendues)]_vars

\* C22: duplicating an entry, validated or not, adds one entry that is
\* unvalidated, belongs to a fiscal year that is open, has a number no
\* existing entry has, and carries line by line the account, the project,
\* the budget line, the debit, the credit and the allocations of the
\* source; no existing entry changes; with no open fiscal year the request
\* fails and the entries stay as they were.
C22_Duplication ==
    [][last'.op = "dupliquer" =>
          \A id \in DOMAIN pieces, auj \in Annees :
             dupliquer_ecriture(id, auj) =>
               IF ExercicesOuverts = {}
               THEN last'.msg # "ok" /\ pieces' = pieces
               ELSE LET copie == pieces'[Len(pieces')]
                        source == pieces[id]
                    IN  /\ last'.msg = "ok"
                        /\ Len(pieces') = Len(pieces) + 1
                        /\ SubSeq(pieces', 1, Len(pieces)) = pieces
                        /\ ~copie.valide
                        /\ ~exercices'[copie.exercice_id].cloture
                        /\ \A i \in DOMAIN pieces :
                              pieces[i].numero # copie.numero
                        /\ Len(copie.lignes) = Len(source.lignes)
                        /\ \A k \in DOMAIN source.lignes :
                              LET l == source.lignes[k]
                                  c == copie.lignes[k]
                              IN  /\ c.compte_id = l.compte_id
                                  /\ c.projet_id = l.projet_id
                                  /\ c.ligne_budget_id = l.ligne_budget_id
                                  /\ c.debit = l.debit
                                  /\ c.credit = l.credit
                                  /\ c.imputations = l.imputations]_vars

\* C22 witness: a validated expense ventilated over two projects was
\* duplicated.
C22_Witness ==
    /\ last.op = "dupliquer"
    /\ last.msg = "ok"
    /\ Len(pieces) = 2
    /\ pieces[1].valide
    /\ ~pieces[2].valide
    /\ Len(pieces[1].lignes[1].imputations) = 2
    /\ pieces[2].lignes = pieces[1].lignes
    /\ pieces[1].lignes[1].ligne_budget_id = 1

\* C23: every request on an entry (create, edit, validate, invalidate,
\* duplicate, bulk validate) that commits a change of the entries commits
\* an audit row about the entries with it, and such a row is committed
\* only by a request that completed.
C23_AuditApparie ==
    [][last'.op \in {"simplifiee", "expert", "modifier", "valider",
                     "invalider", "dupliquer", "valider_lot"} =>
          /\ pieces' # pieces => \E r \in audit' : r.table = "pieces"
          /\ (\E r \in audit' : r.table = "pieces") => last'.msg = "ok"]_vars

C25_MemeNumero ==
    [][\A r \in Requetes :
          (requetes[r] = Libre /\ requetes'[r].etape = "numerote") =>
             /\ requetes'[r].numero =
                    IF pieces = <<>> THEN 1 ELSE Len(pieces) + 1
             /\ \A q \in Requetes \ {r} :
                    (/\ requetes[q].etape = "numerote"
                     /\ requetes[q].dernier = Len(pieces))
                    => requetes'[r].numero = requetes[q].numero]_vars

\* C25 witness: two requests in flight hold the same number, built from
\* the same last entry.
C25_Witness ==
    /\ requetes[1].etape = "numerote"
    /\ requetes[2].etape = "numerote"
    /\ requetes[1].numero = requetes[2].numero
    /\ requetes[1].dernier = 1
    /\ Len(pieces) = 1

\* C26: when an edit is committed, the lines of the entry are exactly the
\* lines that request submitted (the last write wins; the lines of two
\* requests are never mixed), and they are balanced.
C26_DernierEcritGagne ==
    [][(last'.op = "modifier" /\ last'.msg = "ok") =>
          \A r \in Requetes, l \in LignesConcurrentes :
             modifier_ecriture_enregistrer(r, l) =>
                /\ pieces'[last'.id].lignes = LignesModifiees(l)
                /\ Ecart(pieces'[last'.id].lignes) < 1]_vars

\* The lines <<i, k>> (entry, position) of the next state on account c, in
\* the entries of fiscal year e (all of them when e = 0) that are validated
\* (all of them when tout).
C27_Lignes(c, e, tout) ==
    {ik \in (DOMAIN pieces') \X (1..MaxLignes) :
        /\ ik[2] \in DOMAIN pieces'[ik[1]].lignes
        /\ pieces'[ik[1]].lignes[ik[2]].compte_id = c
        /\ tout \/ pieces'[ik[1]].valide
        /\ e = 0 \/ pieces'[ik[1]].exercice_id = e}

\* The debits and the credits of a set of lines of the next state.
RECURSIVE C27_Somme(_)
C27_Somme(S) ==
    IF S = {} THEN <<0, 0>>
    ELSE LET ik == CHOOSE x \in S : TRUE
             reste == C27_Somme(S \ {ik})
             ligne == pieces'[ik[1]].lignes[ik[2]]
         IN  <<reste[1] + ligne.debit, reste[2] + ligne.credit>>

\* C27: by default the trial balance and the financial statements count
\* only the lines of validated entries: creating, editing or duplicating an
\* unvalidated entry changes no figure of either report, and the trial
\* balance counts the unvalidated entries exactly when the
\* include-unvalidated option is set.
C27_RapportsValides ==
    [][\A e \in 0..MaxAnnee :
          e \in DOMAIN exercices \cup {0} =>
            /\ last'.op \in {"simplifiee", "modifier", "dupliquer"} =>
                  /\ balance_generale(e, FALSE)' = balance_generale(e, FALSE)
                  /\ etats_financiers(e)' = etats_financiers(e)
            /\ \A tout \in BOOLEAN :
                  LET balance == balance_generale(e, tout)'
                  IN  \A c \in PlanComptable :
                        LET S == C27_Lignes(c, e, tout)
                            rows == {r \in balance : r.numero = c}
                        IN  IF S = {} THEN rows = {}
                            ELSE /\ Cardinality(rows) = 1
                                 /\ \A r \in rows :
                                       <<r.debit, r.credit>> = C27_Somme(S)]_vars

C27_Witness ==
    /\ last.op = "dupliquer" /\ last.msg = "ok"
    /\ \E i \in DOMAIN pieces : pieces[i].valide
    /\ ~pieces[last.id].valide
    /\ balance_generale(0, FALSE) # {}
    /\ balance_generale(0, TRUE) # balance_generale(0, FALSE)
    /\ \E e \in DOMAIN exercices : etats_financiers(e).charges # {}

\* The lines <<i, k>> (entry, position) that name budget line lb on an
\* account of class 6, in the entries dated in year a (all of them when
\* a = 0).
C28_Lignes(lb, a) ==
    {ik \in (DOMAIN pieces) \X (1..MaxLignes) :
        /\ ik[2] \in DOMAIN pieces[ik[1]].lignes
        /\ pieces[ik[1]].lignes[ik[2]].ligne_budget_id = lb
        /\ pieces[ik[1]].lignes[ik[2]].compte_id \div 100 = 6
        /\ a = 0 \/ pieces[ik[1]].date_piece = a}

RECURSIVE C28_Debits(_)
C28_Debits(S) ==
    IF S = {} THEN 0
    ELSE LET ik == CHOOSE x \in S : TRUE
         IN  pieces[ik[1]].lignes[ik[2]].debit + C28_Debits(S \ {ik})

\* C28: the realized amount of a budget line is the sum of debit over the
\* lines that name the budget line on an account of class 6; the credits
\* of those lines and the lines on accounts of other classes do not count.
C28_Realise ==
    \A lb \in LignesBudget, a \in 0..MaxAnnee :
        realise(lb, a) = C28_Debits(C28_Lignes(lb, a))

C28_Witness ==
    /\ realise(1, 0) = MontantDebit
    /\ \E i \in DOMAIN pieces : \E k \in DOMAIN pieces[i].lignes :
          /\ pieces[i].lignes[k].ligne_budget_id = 1
          /\ pieces[i].lignes[k].compte_id = 601
          /\ pieces[i].lignes[k].credit > 0
    /\ \E i \in DOMAIN pieces : \E k \in DOMAIN pieces[i].lignes :
          /\ pieces[i].lignes[k].ligne_budget_id = 1
          /\ pieces[i].lignes[k].compte_id = 521
          /\ pieces[i].lignes[k].debit > 0

\* C29: the allocation total is a soft invariant: an expense whose
\* percentages do not total 100 is persisted like any other, with its two
\* lines and one allocation per listed project of amount line amount x
\* percentage / 100, and only a warning is flashed; when the form is
\* refused, it is for a reason that refuses the same form without
\* ventilation.
C29_VentilationSouple ==
    [][\A d \in Annees, v \in VentilationsSaisies :
          (/\ v # <<>>
           /\ SumPourcentages(v) # 100
           /\ nouvelle_ecriture_simplifiee("depense", MontantVentile, d, v,
                                           SaisieDepense))
          => IF last'.msg = "ok"
             THEN /\ last'.n = 1
                  /\ Len(pieces') = Len(pieces) + 1
                  /\ SubSeq(pieces', 1, Len(pieces)) = pieces
                  /\ LET lignes == pieces'[Len(pieces')].lignes
                     IN  /\ Len(lignes) = 2
                         /\ lignes[1].debit = MontantVentile
                         /\ lignes[1].credit = 0
                         /\ lignes[2].debit = 0
                         /\ lignes[2].credit = MontantVentile
                         /\ lignes[2].imputations = <<>>
                         /\ Len(lignes[1].imputations) = Len(v)
                         /\ \A k \in DOMAIN v :
                               LET imputation == lignes[1].imputations[k]
                               IN  /\ imputation.projet_id = v[k].projet_id
                                   /\ imputation.pourcentage = v[k].pourcentage
                                   /\ 100 * imputation.montant
                                        = MontantVentile * v[k].pourcentage
             ELSE nouvelle_ecriture_simplifiee("depense", MontantVentile, d,
                                               <<>>, SaisieDepense)]_vars

C29_Witness ==
    /\ last.op = "simplifiee" /\ last.msg = "ok" /\ last.n = 1
    /\ LET imputations == pieces[last.id].lignes[1].imputations
       IN  /\ Len(imputations) = 2
           /\ imputations[1].pourcentage + imputations[2].pourcentage = 150
           /\ imputations[1].montant + imputations[2].montant
                > pieces[last.id].lignes[1].debit

\* C30: every allocation references an existing line: replacing the lines
\* of an entry through modifier_ecriture, the entry carrying allocations
\* (made with a ventilation, or copied from such an entry), is not aborted
\* by the database, and the replaced lines leave no allocation behind.
C30_RemplacementDesLignes ==
    [][(/\ last'.op = "modifier"
        /\ last'.id \in DOMAIN pieces
        /\ AvecImputations(pieces[last'.id].lignes))
       => /\ last'.msg # "erreur"
          /\ last'.msg = "ok" =>
                \A k \in DOMAIN pieces'[last'.id].lignes :
                    pieces'[last'.id].lignes[k].imputations = <<>>]_vars

\* C38: the trial balance balances: for every fiscal year and for all of
\* them together, with the default filter on validated entries, the total
\* debits of the accounts equal their total credits.
C38_BalanceEquilibree ==
    \A e \in 0..MaxAnnee :
        e \in DOMAIN exercices \cup {0} =>
            LET debits == [c \in PlanComptable |->
                          total_du_compte(c, e, FALSE).total_debit]
                credits == [c \in PlanComptable |->
                               total_du_compte(c, e, FALSE).total_credit]
            IN  debits[CompteAvance] + debits[521] + debits[601]
                  = credits[CompteAvance] + credits[521] + credits[601]

\* C40: valider_ecriture and invalider_ecriture change the valide flag of
\* their entry and nothing else: the header, the lines and their
\* allocations, the other entries, the fiscal years and the templates are
\* unchanged, a refused request changes nothing, and invalidating undoes
\* a validation exactly (the entry before a validation is the entry after
\* with valide = False; the audit log gets one row per change).
C40_SeulementValide ==
    [][last'.op \in {"valider", "invalider"} =>
          /\ exercices' = exercices
          /\ modeles' = modeles
          /\ hors_ecritures' = hors_ecritures
          /\ IF last'.msg = "ok"
             THEN /\ last'.id \in DOMAIN pieces
                  /\ pieces[last'.id].valide = (last'.op = "invalider")
                  /\ pieces' = [pieces EXCEPT
                                   ![last'.id].valide = (last'.op = "valider")]
                  /\ pieces = [pieces' EXCEPT
                                  ![last'.id].valide = (last'.op = "invalider")]
                  /\ Cardinality(audit') = 1
             ELSE pieces' = pieces /\ audit' = {}]_vars

C40_Witness ==
    /\ last.op = "invalider" /\ last.msg = "ok"
    /\ Len(pieces) = 2
    /\ ~pieces[last.id].valide
    /\ AvecImputations(pieces[last.id].lignes)
    /\ ~exercices[pieces[last.id].exercice_id].cloture

\* C33: the Excel import is atomic per entry and reports truthfully: every
\* balanced group of the sheet is persisted as one entry with all its
\* lines, no unbalanced group is persisted (a group whose totals differ by
\* one hundredth may go either way), and the number of entries the import
\* reports is the number of entries it persisted, whatever the order of
\* the groups.
C33_ImportFidele ==
    [][last'.op = "import" =>
          \A g \in GroupesSaisis :
              (ExercicesOuverts # {} /\ upload_import_ecritures(g)) =>
                  LET equilibres ==
                          SelectSeq(g, LAMBDA x :
                              total_debit(x.lignes) = total_credit(x.lignes))
                      toleres ==
                          SelectSeq(g, LAMBDA x : Ecart(x.lignes) <= 1)
                      nouvelles == SubSeq(pieces', Len(pieces) + 1,
                                          Len(pieces'))
                  IN  /\ last'.n = Len(nouvelles)
                      /\ Len(equilibres) <= Len(nouvelles)
                      /\ Len(nouvelles) <= Len(toleres)
                      /\ \A k \in DOMAIN nouvelles :
                            /\ Ecart(nouvelles[k].lignes) <= 1
                            /\ Len(nouvelles[k].lignes) = 2]_vars

\* C39: for every depreciation line of every asset the cumulative
\* depreciation does not exceed the acquisition value, i.e. the net book
\* value is not negative, whatever number of fiscal years has been
\* processed by calculer_amortissement.
C39_CumulBorne ==
    \A id \in DOMAIN immobilisations :
        /\ cumul_amortissement(immobilisations[id])
             <= immobilisations[id].valeur_acquisition
        /\ \A k \in DOMAIN immobilisations[id].lignes_amortissement :
              LET ligne == immobilisations[id].lignes_amortissement[k]
              IN  /\ ligne.cumul <= immobilisations[id].valeur_acquisition
                  /\ ligne.valeur_nette >= 0

\* C32: in every interleaving of an edit and a validation of the same
\* entry, the lines of the entry after the validation has committed are
\* the lines the validation checked: no step changes the lines of an entry
\* that is validated, in particular not the write of an edit that passed
\* its test on valide before the validation committed.
C32_LignesValidees ==
    [][\A i \in DOMAIN pieces :
          pieces[i].valide => pieces'[i].lignes = pieces[i].lignes]_vars

\* C31: after any sequence of per-year budget updates a budget line has at
\* most one per-year budget per year, and when it has per-year budgets its
\* planned total (get_total_prevu) is their sum, which is also the value of
\* its montant_prevu field.
C31_BudgetsAnnuels ==
    \A i \in DOMAIN lignes_budget :
        LET ligne == lignes_budget[i]
            budgets == ligne.budgets_annuels
        IN /\ \A j, k \in DOMAIN budgets : budgets[j].annee = budgets[k].annee => j = k
           /\ budgets # <<>> =>
                  /\ get_total_prevu(ligne) = SommeBudgets(budgets)
                  /\ ligne.montant_prevu = SommeBudgets(budgets)

\* A line created with 400 whose two per-year budgets of 100 and 200 make 300
C31_Witness ==
    /\ last.op = "gerer_budget_annuel"
    /\ last.msg = "ok"
    /\ \E i \in DOMAIN lignes_budget :
           /\ Len(lignes_budget[i].budgets_annuels) = 2
           /\ lignes_budget[i].budgets_annuels[1].montant_prevu = 100
           /\ lignes_budget[i].budgets_annuels[2].montant_prevu = 200
           /\ lignes_budget[i].montant_prevu = 300

\* C34: the status of an expense note only moves brouillon -> soumis,
\* soumis -> approuve, soumis -> rejete, rejete -> brouillon (by editing),
\* rejete -> soumis and approuve -> rembourse; a note is edited only while
\* brouillon or rejete; rembourse is terminal and reached only from approuve.
C34_Transitions ==
    {<<"brouillon", "soumis">>, <<"soumis", "approuve">>, <<"soumis", "rejete">>,
     <<"rejete", "brouillon">>, <<"rejete", "soumis">>, <<"approuve", "rembourse">>}

C34_CircuitDesNotes ==
    [][\A i \in DOMAIN notes_frais :
           LET avant == notes_frais[i]
               apres == notes_frais'[i]
           IN /\ avant.statut # apres.statut =>
                     <<avant.statut, apres.statut>> \in C34_Transitions
              /\ (avant.statut = "rejete" /\ apres.statut = "brouillon") =>
                     last'.op = "modifier_note_frais"
              /\ avant.montant # apres.montant =>
                     avant.statut \in {"brouillon", "rejete"}
              /\ (last'.op = "modifier_note_frais" /\ last'.id = i /\ last'.msg = "ok") =>
                     avant.statut \in {"brouillon", "rejete"}
              /\ avant.statut = "rembourse" => apres = avant
              /\ (apres.statut = "rembourse" /\ avant.statut # "rembourse") =>
                     avant.statut = "approuve"]_vars

\* A note that was rejected and has just been edited back to brouillon,
\* beside a note that was reimbursed
C34_Witness ==
    /\ last.op = "modifier_note_frais"
    /\ last.msg = "ok"
    /\ \E i, j \in DOMAIN notes_frais :
           /\ last.id = i
           /\ notes_frais[i].statut = "brouillon"
           /\ notes_frais[i].validateur_id # 0
           /\ notes_frais[j].statut = "rembourse"

\* C35: a purchase order is created only from a purchase request whose
\* status is approuve; the request then becomes commande, which is terminal,
\* and is linked to that order; each request generates at most one order,
\* and the lines and the total of the order are those of the request, which
\* have not changed since its approval.
C35_BonDeCommande ==
    [][/\ \A k \in DOMAIN bons_commande' :
              k \notin DOMAIN bons_commande =>
                  LET bon == bons_commande'[k]
                      avant == demandes_achat[bon.demande_achat_id]
                      apres == demandes_achat'[bon.demande_achat_id]
                  IN /\ avant.statut = "approuve"
                     /\ apres.statut = "commande"
                     /\ apres.bon_commande_id = k
                     /\ Len(bon.lignes) = Len(avant.lignes)
                     /\ \A n \in DOMAIN bon.lignes :
                            /\ bon.lignes[n].designation = avant.lignes[n].designation
                            /\ bon.lignes[n].quantite = avant.lignes[n].quantite
                            /\ bon.lignes[n].prix_unitaire = avant.lignes[n].prix_unitaire_estime
                     /\ bon.montant_total = montant_total(avant.lignes)
       /\ \A j, k \in DOMAIN bons_commande' :
              bons_commande'[j].demande_achat_id = bons_commande'[k].demande_achat_id => j = k
       /\ \A i \in DOMAIN demandes_achat :
              /\ demandes_achat[i].statut = "commande" => demandes_achat'[i] = demandes_achat[i]
              /\ demandes_achat[i].statut = "approuve" =>
                     demandes_achat'[i].lignes = demandes_achat[i].lignes
              /\ (demandes_achat'[i].statut = "commande" /\ demandes_achat[i].statut # "commande") =>
                     Len(bons_commande') = Len(bons_commande) + 1
       /\ \A k \in DOMAIN bons_commande :
              /\ bons_commande'[k].lignes = bons_commande[k].lignes
              /\ bons_commande'[k].montant_total = bons_commande[k].montant_total
              /\ bons_commande'[k].demande_achat_id = bons_commande[k].demande_achat_id]_vars

\* The order of a request of three lines has just been generated
C35_Witness ==
    /\ last.op = "generer_bon_commande"
    /\ last.msg = "ok"
    /\ \E k \in DOMAIN bons_commande :
           /\ Len(bons_commande[k].lignes) = 3
           /\ bons_commande[k].montant_total = 50000000
           /\ demandes_achat[bons_commande[k].demande_achat_id].statut = "commande"
           /\ demandes_achat[bons_commande[k].demande_achat_id].bon_commande_id = k

\* C36: a purchase request is approved only from status soumis, it is
\* submitted only with at least one line, a request whose line total is at
\* least 500,000 is never approved by a user whose role is not directeur,
\* and the lines of a request do not change between submission and approval.
C36_SeuilApprobation ==
    [][\A i \in DOMAIN demandes_achat :
           LET avant == demandes_achat[i]
               apres == demandes_achat'[i]
           IN /\ (apres.statut = "approuve" /\ avant.statut # "approuve") =>
                     /\ avant.statut = "soumis"
                     /\ montant_total(avant.lignes) >= 100 * SEUIL_APPROBATION_DIRECTEUR =>
                            role(apres.approbateur_id) = "directeur"
              /\ (apres.statut = "soumis" /\ avant.statut # "soumis") =>
                     Len(avant.lignes) > 0
              /\ avant.statut = "soumis" => apres.lignes = avant.lignes]_vars

\* C37: a validated bank reconciliation is frozen: once its status is
\* validee it never returns to en_cours, and every later pointing request
\* fails and leaves the ticked flags of its lines and its gap unchanged.
C37_ReconciliationFigee ==
    [][\A i \in DOMAIN reconciliations :
           reconciliations[i].statut = "validee" =>
               /\ reconciliations'[i].statut = "validee"
               /\ reconciliations'[i].lignes = reconciliations[i].lignes
               /\ reconciliations'[i].ecart = reconciliations[i].ecart
               /\ (last'.op = "pointer_lignes_reconciliation" /\ last'.id = i) =>
                      last'.msg \in {"validee", "role"}]_vars

\* A pointing request on a validated reconciliation with a ticked and an
\* unticked line has just been refused
C37_Witness ==
    /\ last.op = "pointer_lignes_reconciliation"
    /\ last.msg = "validee"
    /\ reconciliations[last.id].statut = "validee"
    /\ \E p, q \in DOMAIN reconciliations[last.id].lignes :
           reconciliations[last.id].lignes[p] /\ ~reconciliations[last.id].lignes[q]

====
